---- MODULE Spec2Model ----
(***************************************************************************)
(* A model of cncapp.gcode.generate_gcode (src/src/cncapp/gcode.py): the   *)
(* drilling-program generator, its side-to-Y mapper and its per-hole drill *)
(* cycle.                                                                  *)
(*                                                                         *)
(* Numbers.  The source computes with floats.  Here every length, feed and *)
(* coordinate is an integer count of units of 1e-6 mm (1e-6 mm/min for a   *)
(* feed), so that the tolerance 1e-6 of gcode.py:114 is exactly one unit   *)
(* (Eps).  Arithmetic is exact: IEEE rounding of the float operations is   *)
(* not modelled.  Multipliers (slow_start_factor, slow_start_feed_mult)    *)
(* are integers in hundredths.                                             *)
(*                                                                         *)
(* Text.  A string is a sequence of one-character strings, so that upper-  *)
(* casing, whitespace splitting, prefix and substring tests are computed   *)
(* as Python computes them.  An output line is a record                    *)
(*   [op, v, t, fv, ft, s]: the kind of line, the number handed to the     *)
(* formatter and its formatted text, the feed on the line and its text,    *)
(* and the text carried by a comment.                                      *)
(*                                                                         *)
(* Control.  generate_gcode is followed step by step: pc is "start",       *)
(* "profile", "side", "hole" at the heads of its loops, "peck", "pecking", *)
(* "plunge" and "return" inside drill_moves_for_one_hole, "done" once the  *)
(* program text is returned and "raised" once an exception has left it.    *)
(*                                                                         *)
(* Other entry points.  SessionSpec follows several calls of               *)
(* generate_gcode one after the other, keeping what each returned.         *)
(* BuildSpec follows pipeline.build_program (pc "b_start" to "b_done"),   *)
(* StratSpec follows strategies.slow_then_peck (pc "s_start", "s_loop",    *)
(* "s_done") and ToProfilesSpec follows excel_import.to_profiles over the  *)
(* rows of a table (pc "t_start", "t_row", "t_done"), all on the same      *)
(* variables.                                                              *)
(***************************************************************************)
EXTENDS Integers, Sequences, FiniteSets, TLC

\* ---------------------------------------------------------------- units

\* The tolerance 1e-6 (mm) of the peck-phase entry test: one unit.
Eps == 1

\* Units per millimetre.
Mm == 1000 * 1000

Abs(x) == IF x < 0 THEN -x ELSE x

Max(a, b) == IF a >= b THEN a ELSE b

Min(a, b) == IF a <= b THEN a ELSE b

\* math.ceil(a / b) for a >= 0 and b > 0.
Ceil(a, b) == (a + b - 1) \div b

\* ----------------------------------------------------------------- text

S_BOVENKANT == <<"B","O","V","E","N","K","A","N","T">>

S_ZIJKANT == <<"Z","I","J","K","A","N","T">>

S_TSLOT_A == <<"T","-","S","L","O","T"," ","A">>

S_TSLOT_B == <<"T","-","S","L","O","T"," ","B">>

\* str.upper() on the characters the labels use.
UpperOf == [c \in {"a","b","e","i","j","k","l","m","n","o","r","s","t","v","y","z"} |->
              CASE c = "a" -> "A" [] c = "b" -> "B" [] c = "e" -> "E" [] c = "i" -> "I"
                [] c = "j" -> "J" [] c = "k" -> "K" [] c = "l" -> "L" [] c = "m" -> "M"
                [] c = "n" -> "N" [] c = "o" -> "O" [] c = "r" -> "R" [] c = "s" -> "S"
                [] c = "t" -> "T" [] c = "v" -> "V" [] c = "y" -> "Y" [] c = "z" -> "Z"]

Upper(s) == [i \in 1..Len(s) |-> IF s[i] \in DOMAIN UpperOf THEN UpperOf[s[i]] ELSE s[i]]

IsSpace(c) == c \in {" ", "\t"}

\* str.split(): the maximal runs of non-whitespace characters, in order.
RECURSIVE SplitFrom(_, _, _, _)
SplitFrom(s, i, word, acc) ==
    IF i > Len(s)
    THEN IF word = <<>> THEN acc ELSE Append(acc, word)
    ELSE IF IsSpace(s[i])
         THEN SplitFrom(s, i + 1, <<>>, IF word = <<>> THEN acc ELSE Append(acc, word))
         ELSE SplitFrom(s, i + 1, Append(word, s[i]), acc)

Split(s) == SplitFrom(s, 1, <<>>, <<>>)

\* " ".join(words)
RECURSIVE Join(_)
Join(words) ==
    IF words = <<>> THEN <<>>
    ELSE IF Len(words) = 1 THEN words[1]
    ELSE words[1] \o <<" ">> \o Join(Tail(words))

\* s.startswith(p)
StartsWith(s, p) == Len(p) <= Len(s) /\ SubSeq(s, 1, Len(p)) = p

\* p in s
Contains(s, p) == \E i \in 1..(Len(s) - Len(p) + 1) : SubSeq(s, i, i + Len(p) - 1) = p

\* --------------------------------------------------------- side mapper

\* Optional[float]: <<>> is None, <<v>> is the float v.
None == <<>>

Some(v) == <<v>>

\* The label after line 29: upper-cased, whitespace collapsed.
NormSide(side) == Join(Split(Upper(side)))

\* The loop of lines 37-39 over y_map.items() from position i on: the value of
\* the first key, in the map's iteration order, with "ZIJKANT <key>" in u.
RECURSIVE YMapScan(_, _, _)
YMapScan(u, y_map, i) ==
    IF i > Len(y_map) THEN None
    ELSE IF Contains(u, S_ZIJKANT \o <<" ">> \o y_map[i].key)
         THEN Some(y_map[i].val)
         ELSE YMapScan(u, y_map, i + 1)

\* A side mapper that tests the T-slot B family before the T-slot A family.
_side_to_y_slot_b_first(side, st) ==
    LET u == NormSide(side) IN
    IF StartsWith(u, S_BOVENKANT) THEN Some(st.y_top)
    ELSE IF Contains(u, S_ZIJKANT) /\ Contains(u, S_TSLOT_B) THEN Some(st.y_slot_b)
    ELSE IF Contains(u, S_ZIJKANT) /\ Contains(u, S_TSLOT_A) THEN Some(st.y_slot_a)
    ELSE YMapScan(u, st.y_map, 1)

\* _side_to_y(side, settings)
_side_to_y(side, st) ==
    LET u == NormSide(side) IN
    IF StartsWith(u, S_BOVENKANT) THEN Some(st.y_top)
    ELSE IF Contains(u, S_ZIJKANT) /\ Contains(u, S_TSLOT_A) THEN Some(st.y_slot_a)
    ELSE IF Contains(u, S_ZIJKANT) /\ Contains(u, S_TSLOT_B) THEN Some(st.y_slot_b)
    ELSE YMapScan(u, st.y_map, 1)

\* ------------------------------------------------------------ formatting

\* round-half-to-even of a / q for a >= 0, q > 0 (the rounding of a format spec).
RoundHalfEven(a, q) ==
    LET d == a \div q
        r == a % q
    IN  IF 2 * r > q THEN d + 1
        ELSE IF 2 * r < q THEN d
        ELSE IF d % 2 = 0 THEN d ELSE d + 1

\* The text of no number.
NoFmt == [neg |-> FALSE, n |-> 0, dec |-> 0]

\* _fmt(x, tap): x with one decimal (tap) or three: the sign printed, the
\* rounded digits (in tenths or thousandths of a mm) and the number of decimals.
_fmt(x, tap) ==
    IF tap THEN [neg |-> x < 0, n |-> RoundHalfEven(Abs(x), Mm \div 10), dec |-> 1]
    ELSE [neg |-> x < 0, n |-> RoundHalfEven(Abs(x), Mm \div 1000), dec |-> 3]

\* _fmt_i(x): str(int(round(x))); a negative x that rounds to 0 prints "0".
_fmt_i(x) ==
    LET m == RoundHalfEven(Abs(x), Mm)
    IN  [neg |-> x < 0 /\ m > 0, n |-> m, dec |-> 0]

\* One output line: op names the kind of line, v is the number on it and t its
\* text, fv the feed on it and ft its text, s the text of a comment.
Ln(op, v, t, fv, ft, s) == [op |-> op, v |-> v, t |-> t, fv |-> fv, ft |-> ft, s |-> s]

\* A line that carries no number.
Word(op) == Ln(op, 0, NoFmt, 0, NoFmt, <<>>)

\* A comment line carrying the text s.
Comment(op, s) == Ln(op, 0, NoFmt, 0, NoFmt, s)

\* A line with one number and no feed.
Num(op, v, t) == Ln(op, v, t, 0, NoFmt, <<>>)

\* -------------------------------------------------------------- geometry

\* _profile_thickness(ptype, fallback): ptype is <<>> when _DIM_RE finds no
\* "A x B" in the type label, else <<a, b>>, the two numbers it finds.
_profile_thickness(ptype, fallback) ==
    IF ptype = <<>> THEN fallback ELSE Min(ptype[1], ptype[2])

\* float(x) of line 196 on a hole position: None when the conversion raises.
PyFloat(x) == IF x.isnum THEN Some(x.val) ELSE None

\* ------------------------------------------------------------------ state

VARIABLES
    settings,   \* the options of the call, each the attribute _get finds or its default
    profiles,   \* list(profiles) of line 66
    pc,         \* the place of generate_gcode's control
    pi,         \* position of the profile loop of line 167 (1-based)
    si,         \* position of the side loop of line 179
    hi,         \* position of the hole loop of line 194
    y,          \* _side_to_y of the current side (line 180)
    lines,      \* the output list of line 135
    cycle,      \* the list `lines` of drill_moves_for_one_hole (line 95)
    start_mm,   \* local of drill_moves_for_one_hole
    current,    \* local of drill_moves_for_one_hole: the Z cursor
    n,          \* the number of peck iterations of line 118
    k,          \* the iterations of the loop of line 119 done so far
    history,    \* the calls of generate_gcode that are over: inputs and outcome
    args,       \* the arguments of strategies.slow_then_peck
    z,          \* local of slow_then_peck: the Z cursor
    g,          \* local of slow_then_peck: the output list
    df,         \* the rows of the table handed to excel_import.to_profiles
    ri,         \* position of the row loop of to_profiles (1-based)
    profs       \* local of to_profiles: the profiles by name, in insertion order

vars == <<settings, profiles, pc, pi, si, hi, y, lines, cycle, start_mm, current, n, k,
          history, args, z, g, df, ri, profs>>

\* What a step of generate_gcode never touches.
others == <<history, args, z, g, df, ri, profs>>

\* ------------------------------------------- the locals of lines 67 to 92

tap == settings.tap_mode

safe_z == settings.safe_z

top_z == settings.top_z

depth == settings.depth

plunge_f == settings.plunge_f

travel_f == settings.travel_f

tool_diam == settings.tool_diam

spindle_rpm == settings.spindle_rpm

coolant_on == settings.coolant_on

peck_enable == settings.peck_enable

peck_step == Abs(settings.peck_step)

peck_retract == Abs(settings.peck_retract)

peck_dwell_ms == Max(0, settings.peck_dwell_ms)

slow_start_enable == settings.slow_start_enable

M_factor == <<"f","a","c","t","o","r">>

\* str.lower() on the characters the mode names use.
Lower(s) ==
    [i \in 1..Len(s) |->
        CASE s[i] = "F" -> "f" [] s[i] = "A" -> "a" [] s[i] = "C" -> "c" [] s[i] = "T" -> "t"
          [] s[i] = "O" -> "o" [] s[i] = "R" -> "r" [] s[i] = "M" -> "m" [] OTHER -> s[i]]

slow_start_mode == Lower(settings.slow_start_mode)

\* in hundredths
slow_start_factor == settings.slow_start_factor

slow_start_mm_fixed == Abs(settings.slow_start_mm)

\* in hundredths: max(0.01, slow_start_feed_mult)
slow_start_feed_mult == Max(1, settings.slow_start_feed_mult)

slow_feed == (plunge_f \div 100) * slow_start_feed_mult

target_z == top_z + depth

\* ------------------------------------------------- the current loop items

CurProfile == profiles[pi]

CurSections == CurProfile.sections

CurSide == CurSections[si]

\* The holes of a side taken from the far end.
CurHoleReversed == CurSide.xs[Len(CurSide.xs) + 1 - hi]

CurHole == CurSide.xs[hi]

\* ------------------------------------------------------- framing (137-217)

S_Program == <<"P","r","o","g","r","a","m">>

\* Lines 137 to 165: the preamble of the dialect.
PreambleLines ==
    IF tap
    THEN << Comment("(title)", IF profiles = <<>> THEN S_Program ELSE profiles[1].name),
            Word("G90 G94 G91.1 G40 G49 G17"),
            Word("G21"),
            Word("G28 G91 Z0."),
            Word("G90"),
            Comment("work_offset", settings.work_offset),
            Num("S M3", spindle_rpm, _fmt_i(spindle_rpm)) >>
         \o (IF coolant_on THEN << Word("M8") >> ELSE << >>)
         \o << Num("G0 Z", safe_z, _fmt(safe_z, tap)) >>
    ELSE << Word("(G-CODE)"),
            Word("G90 G21"),
            Word("G17"),
            Comment("work_offset", settings.work_offset),
            Num("(TOOL DRILL D", tool_diam, _fmt(tool_diam, FALSE)),
            Num("S M3", spindle_rpm, _fmt_i(spindle_rpm)) >>
         \o (IF coolant_on THEN << Word("M8") >> ELSE << >>)
         \o << Num("G0 Z", safe_z, _fmt(safe_z, FALSE)) >>

\* Lines 203 to 215: the postamble of the dialect.
PostambleLines ==
    IF tap
    THEN (IF coolant_on THEN << Word("M9") >> ELSE << >>)
         \o << Word("M5"), Word("G28 G91 Z0."), Word("G90"),
               Word("G28 G91 X0. Y0."), Word("G90"), Word("M30") >>
    ELSE << Word("M30") >>

\* Lines 172 to 175: the profile marker and the fixed travel to the start.
ProfileHeadLines(p) ==
    << Comment("(PROFILE", p.name),
       Word(IF tap THEN "G0 X0." ELSE "G0 X0.000"),
       Num("G0 Z", safe_z, _fmt(safe_z, tap)),
       Word(IF tap THEN "G0 Y300." ELSE "G0 Y300.000") >>

\* Lines 186 to 193: the side comment and the move to the side's Y.
SideHeadLines(side, yv) ==
    LET u == Upper(side) IN
    << IF StartsWith(u, S_ZIJKANT)
       THEN Ln("(ZIJKANT", yv, _fmt(yv, tap), 0, NoFmt, Split(u)[Len(Split(u))])
       ELSE Comment("(side)", side),
       IF tap THEN Num("G0 Y", yv, _fmt(yv, tap))
       ELSE Ln("G0 Y", yv, _fmt(yv, FALSE), travel_f, _fmt(travel_f, FALSE), <<>>) >>

\* Line 199: the move to a hole's X.
HoleMoveLine(xf) ==
    IF tap THEN Num("G0 X", xf, _fmt(xf, tap))
    ELSE Ln("G0 X", xf, _fmt(xf, FALSE), travel_f, _fmt(travel_f, FALSE), <<>>)

\* ------------------------------------------- the drill cycle (94 to 133)

\* A feed move down to zd at feed f.
FeedLine(zd, f) == Ln("G1 Z", zd, _fmt(zd, tap), f, _fmt(f, tap), <<>>)

\* A rapid move to zd.
RapidLine(zd) == Num("G0 Z", zd, _fmt(zd, tap))

\* Line 126: the dwell, in seconds with three decimals: whole milliseconds.
DwellLine == Num("G4 P", peck_dwell_ms, [neg |-> FALSE, n |-> peck_dwell_ms, dec |-> 3])

\* Lines 98 to 103: the slow-start distance asked for.
StartMmAsked(ptype) ==
    IF slow_start_enable
    THEN IF slow_start_mode = M_factor
         THEN (_profile_thickness(ptype, 20 * Mm) \div 100) * slow_start_factor
         ELSE slow_start_mm_fixed
    ELSE 0

\* A slow-start distance with the lower clamp only.
StartMmNoUpperClamp(ptype) == Max(0, StartMmAsked(ptype))

\* Lines 104 and 105: the slow-start distance used.
StartMm(ptype) == Min(Max(0, StartMmAsked(ptype)), Abs(target_z - top_z))

\* Line 109: where the slow-start move ends.
SlowTarget(sm) == Max(target_z, top_z - sm)

\* A peck-phase entry test that compares at the resolution the dialect prints.
PeckAlreadyDeepAsPrinted(cur) ==
    cur <= target_z + (IF tap THEN Mm \div 10 ELSE Eps)

\* Line 114: the peck phase finds the depth already reached.
PeckAlreadyDeep(cur) == cur <= target_z + Eps

\* Line 118: the number of peck iterations (peck_step is not 0).
PeckCount(cur) == Max(1, Ceil(Abs(cur - target_z), peck_step))

\* A peck that may pass the target.
NextZNoClamp(cur) == cur - peck_step

\* Line 120: where one peck ends.
NextZ(cur) == Max(target_z, cur - peck_step)

\* A retract by peck_retract wherever that ends.
RetractZNoClamp(cur) == cur + peck_retract

\* Line 124: where the retract after a peck that ended at cur goes.
RetractZ(cur) == Min(top_z, cur + peck_retract)

\* -------------------------------------------------------------- actions

\* A preamble written to a list that outlives the call.
PreambleOnOldLines ==
    /\ pc = "start"
    /\ lines' = lines \o PreambleLines
    /\ pi' = 1
    /\ pc' = "profile"
    /\ UNCHANGED <<others, settings, profiles, si, hi, y, cycle, start_mm, current, n, k>>

\* Lines 135 to 165.
Preamble ==
    /\ pc = "start"
    /\ lines' = PreambleLines
    /\ pi' = 1
    /\ pc' = "profile"
    /\ UNCHANGED <<others, settings, profiles, si, hi, y, cycle, start_mm, current, n, k>>

\* Lines 167 to 177: the next profile's head.
ProfileStart ==
    /\ pc = "profile"
    /\ pi <= Len(profiles)
    /\ lines' = lines \o ProfileHeadLines(CurProfile)
    /\ si' = 1
    /\ pc' = "side"
    /\ UNCHANGED <<others, settings, profiles, pi, hi, y, cycle, start_mm, current, n, k>>

\* Lines 179 to 183: a side _side_to_y does not resolve.
SideSkip ==
    /\ pc = "side"
    /\ si <= Len(CurSections)
    /\ _side_to_y(CurSide.side, settings) = None
    /\ y' = None
    /\ lines' = Append(lines, Comment("(SKIP onbekende zijde:", CurSide.side))
    /\ si' = si + 1
    /\ UNCHANGED <<others, settings, profiles, pc, pi, hi, cycle, start_mm, current, n, k>>

\* Lines 179 to 193: a side _side_to_y resolves.
SideBegin ==
    /\ pc = "side"
    /\ si <= Len(CurSections)
    /\ _side_to_y(CurSide.side, settings) # None
    /\ y' = _side_to_y(CurSide.side, settings)
    /\ lines' = lines \o SideHeadLines(CurSide.side, y'[1])
    /\ hi' = 1
    /\ pc' = "hole"
    /\ UNCHANGED <<others, settings, profiles, pi, si, cycle, start_mm, current, n, k>>

\* Line 179: the sides of the profile are exhausted.
SidesDone ==
    /\ pc = "side"
    /\ si > Len(CurSections)
    /\ pi' = pi + 1
    /\ pc' = "profile"
    /\ UNCHANGED <<others, settings, profiles, si, hi, y, lines, cycle, start_mm, current, n, k>>

\* Lines 194 to 198: a hole position float() rejects.
HoleSkip ==
    /\ pc = "hole"
    /\ hi <= Len(CurSide.xs)
    /\ PyFloat(CurHole) = None
    /\ hi' = hi + 1
    /\ UNCHANGED <<others, settings, profiles, pc, pi, si, y, lines, cycle, start_mm, current, n, k>>

\* Lines 194 to 199 and 95 to 111: the move to the hole, then the entry of
\* drill_moves_for_one_hole with its slow-start phase.
HoleStart ==
    /\ pc = "hole"
    /\ hi <= Len(CurSide.xs)
    /\ PyFloat(CurHole) # None
    /\ lines' = Append(lines, HoleMoveLine(PyFloat(CurHole)[1]))
    /\ start_mm' = StartMm(CurProfile.ptype)
    /\ IF start_mm' > 0
       THEN /\ cycle' = << FeedLine(SlowTarget(start_mm'), slow_feed) >>
            /\ current' = SlowTarget(start_mm')
       ELSE /\ cycle' = << >>
            /\ current' = top_z
    /\ pc' = IF peck_enable THEN "peck" ELSE "plunge"
    /\ UNCHANGED <<others, settings, profiles, pi, si, hi, y, n, k>>

\* Line 194: the holes of the side are exhausted.
HolesDone ==
    /\ pc = "hole"
    /\ hi > Len(CurSide.xs)
    /\ si' = si + 1
    /\ pc' = "side"
    /\ UNCHANGED <<others, settings, profiles, pi, hi, y, lines, cycle, start_mm, current, n, k>>

\* An early return of the peck phase that forgets the retract.
PeckNothingNoRetract ==
    /\ pc = "peck"
    /\ PeckAlreadyDeep(current)
    /\ pc' = "return"
    /\ UNCHANGED <<others, settings, profiles, pi, si, hi, y, lines, cycle, start_mm, current, n, k>>

\* Lines 113 to 116: the peck phase entered with the depth already reached.
PeckNothing ==
    /\ pc = "peck"
    /\ PeckAlreadyDeep(current)
    /\ cycle' = Append(cycle, RapidLine(safe_z))
    /\ pc' = "return"
    /\ UNCHANGED <<others, settings, profiles, pi, si, hi, y, lines, start_mm, current, n, k>>

\* Lines 117 and 118 with peck_step 0: remaining / peck_step raises
\* ZeroDivisionError, which generate_gcode does not catch.
PeckRaise ==
    /\ pc = "peck"
    /\ ~PeckAlreadyDeep(current)
    /\ peck_step = 0
    /\ pc' = "raised"
    /\ UNCHANGED <<others, settings, profiles, pi, si, hi, y, lines, cycle, start_mm, current, n, k>>

\* Lines 117 and 118: the number of pecks.
PeckEnter ==
    /\ pc = "peck"
    /\ ~PeckAlreadyDeep(current)
    /\ peck_step # 0
    /\ n' = PeckCount(current)
    /\ k' = 0
    /\ pc' = "pecking"
    /\ UNCHANGED <<others, settings, profiles, pi, si, hi, y, lines, cycle, start_mm, current>>

\* An iteration of the peck loop that retracts after the last peck too.
PeckStepAlwaysRetracts ==
    /\ pc = "pecking"
    /\ k < n
    /\ current' = NextZ(current)
    /\ cycle' = cycle \o << FeedLine(current', plunge_f), RapidLine(RetractZ(current')) >>
                 \o (IF peck_dwell_ms > 0 THEN << DwellLine >> ELSE << >>)
    /\ k' = k + 1
    /\ UNCHANGED <<others, settings, profiles, pc, pi, si, hi, y, lines, start_mm, n>>

\* Lines 119 to 126: one iteration of the peck loop.
PeckStep ==
    /\ pc = "pecking"
    /\ k < n
    /\ current' = NextZ(current)
    /\ cycle' = cycle \o << FeedLine(current', plunge_f) >>
                 \o (IF current' > target_z
                     THEN << RapidLine(RetractZ(current')) >>
                          \o (IF peck_dwell_ms > 0 THEN << DwellLine >> ELSE << >>)
                     ELSE << >>)
    /\ k' = k + 1
    /\ UNCHANGED <<others, settings, profiles, pc, pi, si, hi, y, lines, start_mm, n>>

\* Lines 127 and 128: the loop is over.
PeckExit ==
    /\ pc = "pecking"
    /\ k = n
    /\ cycle' = Append(cycle, RapidLine(safe_z))
    /\ pc' = "return"
    /\ UNCHANGED <<others, settings, profiles, pi, si, hi, y, lines, start_mm, current, n, k>>

\* A plain plunge that feeds to the target without asking where the cursor is.
PlainPlungeUnguarded ==
    /\ pc = "plunge"
    /\ cycle' = cycle \o << FeedLine(target_z, plunge_f), RapidLine(safe_z) >>
    /\ pc' = "return"
    /\ UNCHANGED <<others, settings, profiles, pi, si, hi, y, lines, start_mm, current, n, k>>

\* Lines 130 to 133: no pecking.
PlainPlunge ==
    /\ pc = "plunge"
    /\ cycle' = cycle
                 \o (IF current > target_z THEN << FeedLine(target_z, plunge_f) >> ELSE << >>)
                 \o << RapidLine(safe_z) >>
    /\ pc' = "return"
    /\ UNCHANGED <<others, settings, profiles, pi, si, hi, y, lines, start_mm, current, n, k>>

\* A hole whose lines join the output without the last of them, the rapid out.
HoleReturnStayingDown ==
    /\ pc = "return"
    /\ lines' = lines \o SubSeq(cycle, 1, Len(cycle) - 1)
    /\ hi' = hi + 1
    /\ pc' = "hole"
    /\ UNCHANGED <<others, settings, profiles, pi, si, y, cycle, start_mm, current, n, k>>

\* Line 200: the hole's lines join the output; on to the next hole.
HoleReturn ==
    /\ pc = "return"
    /\ lines' = lines \o cycle
    /\ hi' = hi + 1
    /\ pc' = "hole"
    /\ UNCHANGED <<others, settings, profiles, pi, si, y, cycle, start_mm, current, n, k>>

\* An end of the call that refuses a program without profiles.
PostambleRefusingEmpty ==
    /\ pc = "profile"
    /\ pi > Len(profiles)
    /\ lines' = lines \o PostambleLines
    /\ pc' = IF profiles = << >> THEN "raised" ELSE "done"
    /\ UNCHANGED <<others, settings, profiles, pi, si, hi, y, cycle, start_mm, current, n, k>>

\* Lines 202 to 217: the profiles are exhausted.
Postamble ==
    /\ pc = "profile"
    /\ pi > Len(profiles)
    /\ lines' = lines \o PostambleLines
    /\ pc' = "done"
    /\ UNCHANGED <<others, settings, profiles, pi, si, hi, y, cycle, start_mm, current, n, k>>

Next ==
    \/ Preamble
    \/ ProfileStart
    \/ SideSkip
    \/ SideBegin
    \/ SidesDone
    \/ HoleSkip
    \/ HoleStart
    \/ HolesDone
    \/ PeckNothing
    \/ PeckRaise
    \/ PeckEnter
    \/ PeckStep
    \/ PeckExit
    \/ PlainPlunge
    \/ HoleReturn
    \/ Postamble

\* ------------------------------------------------------ inputs and Init

\* The most profiles in one call, sides in one call and holes in one call.
MaxProfiles == 2

MaxSides == 2

MaxHoles == 2

K_Y1 == <<"Y","1">>

K_Y10 == <<"Y","1","0">>

K_Y30 == <<"Y","3","0">>

L_Top == <<"B","O","V","E","N","K","A","N","T">>

L_TopLower == <<"b","o","v","e","n","k","a","n","t">>

L_SlotA == <<"Z","I","J","K","A","N","T"," ","T","-","s","l","o","t"," ","A">>

L_SlotB == <<"Z","I","J","K","A","N","T"," ","T","-","s","l","o","t"," ","B">>

L_SlotASpaced == <<" ","z","i","j","k","a","n","t"," "," ","t","-","s","l","o","t"," "," ","a">>

L_SlotBA == <<"Z","I","J","K","A","N","T"," ","T","-","s","l","o","t"," ","B"," ","T","-","s","l","o","t"," ","A">>

L_TopSlotA == <<"B","O","V","E","N","K","A","N","T"," ","Z","I","J","K","A","N","T"," ","T","-","s","l","o","t"," ","A">>

L_SideTop == <<"Z","I","J","K","A","N","T"," ","B","O","V","E","N","K","A","N","T">>

L_Y10 == <<"Z","I","J","K","A","N","T"," ","Y","1","0">>

L_Y1 == <<"Z","I","J","K","A","N","T"," ","Y","1">>

L_Y30 == <<"Z","I","J","K","A","N","T"," ","Y","3","0">>

L_Y10SlotB == <<"Z","I","J","K","A","N","T"," ","Y","1","0"," ","T","-","s","l","o","t"," ","B">>

L_Y10Spaced == <<"z","i","j","k","a","n","t"," "," ","y","1","0">>

L_Y100 == <<"Z","I","J","K","A","N","T"," ","Y","1","0","0">>

L_Mystery == <<"M","Y","S","T","E","R","Y">>

\* The side labels the mapper is tried on.
Labels ==
    { L_Top, L_TopLower, L_SlotA, L_SlotB, L_SlotASpaced, L_SlotBA, L_TopSlotA, L_SideTop,
      L_Y10, L_Y1, L_Y30, L_Y10SlotB, L_Y10Spaced, L_Y100, L_Mystery }

\* The y_map tables tried, each in its iteration order.
YMaps ==
    { << [key |-> K_Y10, val |-> 10 * Mm], [key |-> K_Y30, val |-> 30 * Mm] >>,
      << [key |-> K_Y1, val |-> 1 * Mm], [key |-> K_Y10, val |-> 10 * Mm] >>,
      << [key |-> K_Y10, val |-> 10 * Mm], [key |-> K_Y1, val |-> 1 * Mm] >>,
      << [key |-> K_Y1, val |-> 1 * Mm] >>,
      << >> }

\* The options of a call that sets none but travel_f and spindle_rpm: the
\* defaults of lines 30 to 36 and 67 to 89.
BaseSettings ==
    [ tap_mode |-> FALSE, work_offset |-> <<"G","5","4">>,
      safe_z |-> 85 * Mm, top_z |-> 0, depth |-> -5 * Mm,
      plunge_f |-> 300 * Mm, travel_f |-> 1200 * Mm,
      tool_diam |-> 4 * Mm, spindle_rpm |-> 2000 * Mm, coolant_on |-> FALSE,
      peck_enable |-> FALSE, peck_step |-> 2 * Mm, peck_retract |-> 1 * Mm,
      peck_dwell_ms |-> 0,
      slow_start_enable |-> FALSE, slow_start_mode |-> M_factor,
      slow_start_factor |-> 40, slow_start_mm |-> 4 * Mm, slow_start_feed_mult |-> 40,
      y_map |-> << [key |-> K_Y10, val |-> 10 * Mm], [key |-> K_Y30, val |-> 30 * Mm] >>,
      y_top |-> 300 * Mm, y_slot_a |-> -10 * Mm, y_slot_b |-> 10 * Mm ]

Hole(v) == [isnum |-> TRUE, val |-> v]

\* A hole position float() rejects.
BadHole == [isnum |-> FALSE, val |-> 0]

HoleVals == { Hole(1 * Mm), Hole(2 * Mm), BadHole }

PType2040 == << 20 * Mm, 40 * Mm >>

Profile(i, ptype, sections) ==
    [ name |-> << "P", ToString(i) >>, ptype |-> ptype, length_mm |-> 1000 * Mm,
      tool_diam |-> 4 * Mm, sections |-> sections ]

\* The lists of at most h hole positions.
HoleLists(h) == UNION { [1..j -> HoleVals] : j \in 0..h }

\* The section tables of at most s sides with distinct labels among ls and at
\* most h holes in all.
RECURSIVE SectionLists(_, _, _)
SectionLists(ls, s, h) ==
    { << >> } \cup
    ( IF s = 0 THEN { }
      ELSE UNION { UNION { { << [side |-> l, xs |-> x] >> \o rest :
                               rest \in SectionLists(ls \ {l}, s - 1, h - Len(x)) } :
                           x \in HoleLists(h) } :
                   l \in ls } )

RECURSIVE HoleCount(_)
HoleCount(secs) == IF secs = << >> THEN 0 ELSE Len(secs[1].xs) + HoleCount(Tail(secs))

\* The profile lists of at most p profiles, s sides in all and h holes in all,
\* the first profile being number i.
RECURSIVE Programs(_, _, _, _)
Programs(i, p, s, h) ==
    { << >> } \cup
    ( IF p = 0 THEN { }
      ELSE UNION { { << Profile(i, PType2040, secs) >> \o rest :
                       rest \in Programs(i + 1, p - 1, s - Len(secs), h - HoleCount(secs)) } :
                   secs \in SectionLists({ L_Top, L_Mystery }, s, h) } )

\* One profile with one hole on its top face, after a side that does not resolve.
OneHole(ptype) ==
    << Profile(1, ptype, << [side |-> L_Mystery, xs |-> << Hole(1 * Mm) >>],
                            [side |-> L_Top, xs |-> << Hole(1 * Mm) >>] >>) >>

TopZs == { 0, 1 * Mm }

Depths == { -5 * Mm, -4 * Mm, -2, -1, 0, 2 * Mm }

SafeZs == { 85 * Mm, 0, -1 * Mm }

PeckSteps == { -2 * Mm, 0, 2 * Mm, 3 * Mm }

PeckRetracts == { -1 * Mm, 10 * Mm }

Dwells == { -100, 500 }

Factors == { -40, 10, 40 }

PTypes == { << >>, PType2040, << 30 * Mm, 3 * Mm >> }

SlowMms == { -3 * Mm, 0, 10 * Mm }

M_mm == <<"M","M">>

\* The peck options: off, or on with each step, retract and dwell.
PeckChoices ==
    { [enable |-> FALSE, step |-> 2 * Mm, retract |-> 1 * Mm, dwell |-> 0] }
    \cup [enable : {TRUE}, step : PeckSteps, retract : PeckRetracts, dwell : Dwells]

\* The slow-start options with the profile type they act on: off, on by factor
\* of each thickness, on by each fixed distance.
SlowChoices ==
    { [enable |-> FALSE, mode |-> M_factor, factor |-> 40, mm |-> 4 * Mm, ptype |-> PType2040] }
    \cup [enable : {TRUE}, mode : {M_factor}, factor : Factors, mm : {4 * Mm}, ptype : PTypes]
    \cup [enable : {TRUE}, mode : {M_mm}, factor : {40}, mm : SlowMms, ptype : {PType2040}]

\* Calls that vary the heights and the drilling strategy on one hole.
InitDrill ==
    \E tz \in TopZs, d \in Depths, sz \in SafeZs, pk \in PeckChoices, sl \in SlowChoices :
        /\ settings = [BaseSettings EXCEPT
                         !.top_z = tz, !.depth = d, !.safe_z = sz,
                         !.peck_enable = pk.enable, !.peck_step = pk.step,
                         !.peck_retract = pk.retract, !.peck_dwell_ms = pk.dwell,
                         !.slow_start_enable = sl.enable, !.slow_start_mode = sl.mode,
                         !.slow_start_factor = sl.factor, !.slow_start_mm = sl.mm]
        /\ profiles = OneHole(sl.ptype)

\* Calls that vary the profile list, in both dialects.
InitAssemble ==
    \E t \in BOOLEAN :
        /\ settings = [BaseSettings EXCEPT !.tap_mode = t, !.coolant_on = ~t]
        /\ profiles \in Programs(1, MaxProfiles, MaxSides, MaxHoles)

\* Calls that vary the side label and the y_map on one hole.
InitSides ==
    \E l \in Labels, m \in YMaps, t \in BOOLEAN, c \in BOOLEAN :
        /\ settings = [BaseSettings EXCEPT
                         !.y_map = m, !.tap_mode = t, !.coolant_on = c, !.y_slot_b = 11 * Mm]
        /\ profiles \in { << >>, << Profile(1, PType2040, << [side |-> l, xs |-> << Hole(2 * Mm) >>] >>) >> }

\* Calls with no profile that vary the options of both dialects.
InitEmpty ==
    \E pk \in PeckChoices, sz \in SafeZs, t \in BOOLEAN, c \in BOOLEAN :
        /\ settings = [BaseSettings EXCEPT
                         !.tap_mode = t, !.coolant_on = c, !.safe_z = sz,
                         !.peck_enable = pk.enable, !.peck_step = pk.step,
                         !.peck_retract = pk.retract, !.peck_dwell_ms = pk.dwell]
        /\ profiles = << >>

\* Calls on one profile whose sides hold positions float() rejects, before
\* and after positions it takes, under each peck option in both dialects.
InitSkips ==
    \E pk \in PeckChoices, t \in BOOLEAN :
        /\ settings = [BaseSettings EXCEPT
                         !.tap_mode = t,
                         !.peck_enable = pk.enable, !.peck_step = pk.step,
                         !.peck_retract = pk.retract, !.peck_dwell_ms = pk.dwell]
        /\ profiles =
              << Profile(1, PType2040,
                         << [side |-> L_Top, xs |-> << Hole(1 * Mm), BadHole, Hole(2 * Mm) >>],
                            [side |-> L_Y10, xs |-> << BadHole >>] >>) >>

\* The values of slow_start_feed_mult tried, in hundredths.
FeedMults == { -50, 0, 40, 100, 150 }

\* Calls that vary the slow-start feed multiplier on one hole, the slow start
\* covering 2 mm of the 5 or all of it, with and without pecking.
InitFeeds ==
    \E m \in FeedMults, mm \in { 2 * Mm, 10 * Mm }, pe \in BOOLEAN, t \in BOOLEAN :
        /\ settings = [BaseSettings EXCEPT
                         !.tap_mode = t, !.peck_enable = pe,
                         !.slow_start_enable = TRUE, !.slow_start_mode = M_mm,
                         !.slow_start_mm = mm, !.slow_start_feed_mult = m]
        /\ profiles = OneHole(PType2040)

Init ==
    /\ \/ InitDrill
       \/ InitAssemble
       \/ InitSides
       \/ InitEmpty
       \/ InitSkips
       \/ InitFeeds
    /\ pc = "start"
    /\ pi = 0
    /\ si = 0
    /\ hi = 0
    /\ y = None
    /\ lines = << >>
    /\ cycle = << >>
    /\ start_mm = 0
    /\ current = 0
    /\ n = 0
    /\ k = 0
    /\ history = << >>
    /\ args = << >>
    /\ z = 0
    /\ g = << >>
    /\ df = << >>
    /\ ri = 0
    /\ profs = << >>

Spec == Init /\ [][Next]_vars

\* generate_gcode runs to its return or to the exception without waiting on
\* anything: every step that can be taken is taken.
FairSpec == Spec /\ WF_vars(Next)

\* ----------------------------------------------------- repeated calls

\* The most calls of generate_gcode in one session.
MaxCalls == 3

\* How a call that is over ended: what it was given, as it is when the call
\* ends, whether an exception left it, and the lines of the text it returned.
Outcome ==
    [ profiles |-> profiles, settings |-> settings, raised |-> pc = "raised",
      out |-> IF pc = "raised" THEN << >> ELSE lines ]

Over == pc \in { "done", "raised" }

\* The calls that are over, the one just ended included.
Finished == IF Over THEN Append(history, Outcome) ELSE history

\* One profile: a side that does not resolve, then a numbered side whose first
\* hole position is not a number.
SessionProfiles ==
    << Profile(1, PType2040,
               << [side |-> L_Mystery, xs |-> << Hole(1 * Mm) >>],
                  [side |-> L_Y10, xs |-> << BadHole, Hole(2 * Mm) >>] >>) >>

\* The drilling strategies of a session: plain, three pecks with a dwell, one
\* peck of a hole 2e-6 mm deep, a zero peck step, slow start before pecking.
SessionStrategies ==
    { BaseSettings,
      [BaseSettings EXCEPT !.peck_enable = TRUE, !.peck_dwell_ms = 500],
      [BaseSettings EXCEPT !.peck_enable = TRUE, !.depth = -2],
      [BaseSettings EXCEPT !.peck_enable = TRUE, !.peck_step = 0],
      [BaseSettings EXCEPT !.peck_enable = TRUE, !.slow_start_enable = TRUE] }

SessionSettings ==
    { [st EXCEPT !.tap_mode = t] : st \in SessionStrategies, t \in BOOLEAN }

\* The caller of lines 52 and 217: the call is over, its outcome is kept, and
\* generate_gcode is called again.  The new frame has none of the old locals;
\* `lines` still names the text handed back, until line 135 binds a new list.
Call ==
    /\ Over
    /\ Len(history) + 1 < MaxCalls
    /\ history' = Append(history, Outcome)
    /\ settings' \in SessionSettings
    /\ profiles' = SessionProfiles
    /\ pc' = "start"
    /\ pi' = 0 /\ si' = 0 /\ hi' = 0 /\ y' = None
    /\ cycle' = << >> /\ start_mm' = 0 /\ current' = 0 /\ n' = 0 /\ k' = 0
    /\ UNCHANGED <<lines, args, z, g, df, ri, profs>>

SessionInit ==
    /\ settings \in SessionSettings
    /\ profiles = SessionProfiles
    /\ pc = "start"
    /\ pi = 0 /\ si = 0 /\ hi = 0 /\ y = None
    /\ lines = << >> /\ cycle = << >> /\ start_mm = 0 /\ current = 0 /\ n = 0 /\ k = 0
    /\ history = << >> /\ args = << >> /\ z = 0 /\ g = << >>
    /\ df = << >> /\ ri = 0 /\ profs = << >>

SessionNext ==
    \/ Next
    \/ Call

SessionSpec == SessionInit /\ [][SessionNext]_vars

\* ------------------------------------- pipeline.build_program (53-118)

\* str.strip(): the text without its leading and trailing whitespace.
RECURSIVE LStrip(_)
LStrip(t) == IF t # << >> /\ IsSpace(Head(t)) THEN LStrip(Tail(t)) ELSE t

RECURSIVE RStrip(_)
RStrip(t) ==
    IF t # << >> /\ IsSpace(t[Len(t)]) THEN RStrip(SubSeq(t, 1, Len(t) - 1)) ELSE t

Strip(t) == RStrip(LStrip(t))

\* Line 79: the section keys in upper case, stripped, in the table's order.
keys_upper(sections) == [j \in 1..Len(sections) |-> Strip(Upper(sections[j].side))]

IsDigit(c) == c \in { "0", "1", "2", "3", "4", "5", "6", "7", "8", "9" }

DigitOf(c) ==
    CASE c = "0" -> 0 [] c = "1" -> 1 [] c = "2" -> 2 [] c = "3" -> 3 [] c = "4" -> 4
      [] c = "5" -> 5 [] c = "6" -> 6 [] c = "7" -> 7 [] c = "8" -> 8 [] c = "9" -> 9

\* The first position at or after i of t that holds no whitespace.
RECURSIVE SkipSpaces(_, _)
SkipSpaces(t, i) == IF i <= Len(t) /\ IsSpace(t[i]) THEN SkipSpaces(t, i + 1) ELSE i

\* int() of the longest run of digits of t that starts at i, continuing acc.
RECURSIVE IntFrom(_, _, _)
IntFrom(t, i, acc) ==
    IF i <= Len(t) /\ IsDigit(t[i]) THEN IntFrom(t, i + 1, 10 * acc + DigitOf(t[i])) ELSE acc

\* The match of ZIJKANT\s*Y\s*(\d+) that starts at position i of t, if any.
MatchYAt(t, i) ==
    LET a == SkipSpaces(t, i + Len(S_ZIJKANT))
        b == SkipSpaces(t, a + 1)
    IN  IF /\ i + Len(S_ZIJKANT) - 1 <= Len(t)
           /\ SubSeq(t, i, i + Len(S_ZIJKANT) - 1) = S_ZIJKANT
           /\ a <= Len(t) /\ t[a] = "Y"
           /\ b <= Len(t) /\ IsDigit(t[b])
        THEN Some(IntFrom(t, b, 0))
        ELSE None

\* Line 90: re.search finds the leftmost match; the second pattern of the
\* line matches nothing the first does not.
RECURSIVE SearchY(_, _)
SearchY(t, i) ==
    IF i > Len(t) THEN None
    ELSE IF MatchYAt(t, i) # None THEN MatchYAt(t, i)
    ELSE SearchY(t, i + 1)

\* Lines 88 to 95: the numbers of the numbered sides.
y_vals(ku) == { SearchY(ku[j], 1)[1] : j \in { q \in 1..Len(ku) : SearchY(ku[q], 1) # None } }

\* sorted() of a set of numbers.
RECURSIVE Sorted(_)
Sorted(S) ==
    IF S = { } THEN << >>
    ELSE LET m == CHOOSE a \in S : \A b \in S : a <= b
         IN  << m >> \o Sorted(S \ { m })

S_A == << "A" >>

S_B == << "B" >>

\* Lines 81 to 86: the three placement markers of a profile named name.
PlaceMarkers(ku, name) ==
    (IF \E j \in 1..Len(ku) : Contains(ku[j], S_BOVENKANT)
     THEN << Comment("(PLAATS PROFIEL: BOVENKANT)", name) >> ELSE << >>)
    \o (IF \E j \in 1..Len(ku) : Contains(ku[j], S_ZIJKANT) /\ Contains(ku[j], S_A)
        THEN << Comment("(PLAATS PROFIEL: ZIJKANT A)", name) >> ELSE << >>)
    \o (IF \E j \in 1..Len(ku) : Contains(ku[j], S_ZIJKANT) /\ Contains(ku[j], S_B)
        THEN << Comment("(PLAATS PROFIEL: ZIJKANT B)", name) >> ELSE << >>)

\* Lines 96 and 97: one marker per numbered side, in ascending order.
PlaceYMarkers(ku, name) ==
    LET ys == Sorted(y_vals(ku))
    IN  [j \in 1..Len(ys) |->
            Ln("(PLAATS PROFIEL: ZIJKANT Y", ys[j], [neg |-> FALSE, n |-> ys[j], dec |-> 0],
               0, NoFmt, name)]

\* Lines 42 to 45: the tool diameter of the profile; ProfileSpec requires one,
\* so the fallbacks of lines 46 to 51 are not reached.
_get_tool_diam(p, st) == Some(p.tool_diam)

\* Lines 109 to 112: the line of one hole.
DrillLine(xf, tool) ==
    IF tool # None
    THEN Ln("(DRILL X", xf, _fmt(xf, FALSE), tool[1], NoFmt, << >>)
    ELSE Num("(DRILL X", xf, _fmt(xf, FALSE))

\* Lines 62 to 65.
BuildStart ==
    /\ pc = "b_start"
    /\ lines' = << Word("(CNC Program)"),
                   Num("(profiles:", Len(profiles), [neg |-> FALSE, n |-> Len(profiles), dec |-> 0]) >>
    /\ pi' = 1
    /\ pc' = "b_profile"
    /\ UNCHANGED <<others, settings, profiles, si, hi, y, cycle, start_mm, current, n, k>>

\* Lines 67 to 97: the head of the next profile, its fixed moves and its
\* placement markers.
BuildProfile ==
    /\ pc = "b_profile"
    /\ pi <= Len(profiles)
    /\ lines' = lines
                 \o << Comment("(PROFILE", CurProfile.name),
                       Word("G0 X0.000"), Word("G0 Z85.000"), Word("G0 Y300.000") >>
                 \o PlaceMarkers(keys_upper(CurSections), CurProfile.name)
                 \o PlaceYMarkers(keys_upper(CurSections), CurProfile.name)
    /\ si' = 1
    /\ pc' = "b_side"
    /\ UNCHANGED <<others, settings, profiles, pi, hi, y, cycle, start_mm, current, n, k>>

\* Lines 100 to 103: a section opens.
BuildSide ==
    /\ pc = "b_side"
    /\ si <= Len(CurSections)
    /\ lines' = Append(lines, Comment("[", Strip(CurSide.side)))
    /\ hi' = 1
    /\ pc' = "b_hole"
    /\ UNCHANGED <<others, settings, profiles, pi, si, y, cycle, start_mm, current, n, k>>

\* Lines 104 to 108: a hole position float() rejects.
BuildHoleSkip ==
    /\ pc = "b_hole"
    /\ hi <= Len(CurSide.xs)
    /\ PyFloat(CurHole) = None
    /\ hi' = hi + 1
    /\ UNCHANGED <<others, settings, profiles, pc, pi, si, y, lines, cycle, start_mm, current, n, k>>

\* Lines 104 to 112: the line of a hole.
BuildHole ==
    /\ pc = "b_hole"
    /\ hi <= Len(CurSide.xs)
    /\ PyFloat(CurHole) # None
    /\ lines' = Append(lines, DrillLine(PyFloat(CurHole)[1], _get_tool_diam(CurProfile, settings)))
    /\ hi' = hi + 1
    /\ UNCHANGED <<others, settings, profiles, pc, pi, si, y, cycle, start_mm, current, n, k>>

\* Line 113: the section closes.
BuildSideEnd ==
    /\ pc = "b_hole"
    /\ hi > Len(CurSide.xs)
    /\ lines' = Append(lines, Comment("[/", Strip(CurSide.side)))
    /\ si' = si + 1
    /\ pc' = "b_side"
    /\ UNCHANGED <<others, settings, profiles, pi, hi, y, cycle, start_mm, current, n, k>>

\* Line 100: the sections of the profile are exhausted.
BuildProfileEnd ==
    /\ pc = "b_side"
    /\ si > Len(CurSections)
    /\ pi' = pi + 1
    /\ pc' = "b_profile"
    /\ UNCHANGED <<others, settings, profiles, si, hi, y, lines, cycle, start_mm, current, n, k>>

\* Line 115: the profiles are exhausted and the text is returned.
BuildReturn ==
    /\ pc = "b_profile"
    /\ pi > Len(profiles)
    /\ pc' = "b_done"
    /\ UNCHANGED <<others, settings, profiles, pi, si, hi, y, lines, cycle, start_mm, current, n, k>>

BuildNext ==
    \/ BuildStart
    \/ BuildProfile
    \/ BuildSide
    \/ BuildHoleSkip
    \/ BuildHole
    \/ BuildSideEnd
    \/ BuildProfileEnd
    \/ BuildReturn

L_Y030Tight == <<"z","i","j","k","a","n","t","y","0","3","0">>

L_Y7Y9 == <<"Z","I","J","K","A","N","T"," ","Y"," ","7"," ","Y","9">>

\* The side labels build_program is tried on.
BuildLabels == { L_Top, L_SlotA, L_SlotB, L_SlotASpaced, L_Y30, L_Y030Tight, L_Y7Y9, L_Mystery }

\* The hole lists of a section of build_program.
BuildHoles == { << >>, << Hole(1 * Mm) >>, << BadHole, Hole(2 * Mm) >> }

\* The section tables of at most s sides with distinct labels among ls.
RECURSIVE BuildSections(_, _)
BuildSections(ls, s) ==
    { << >> } \cup
    ( IF s = 0 THEN { }
      ELSE UNION { { << [side |-> l, xs |-> x] >> \o rest :
                       x \in BuildHoles, rest \in BuildSections(ls \ { l }, s - 1) } :
                   l \in ls } )

\* Calls of build_program: one profile of each section table, alone or before
\* a profile with a top face only, under a safe_z of 85 or of 50.
BuildInit ==
    /\ \E secs \in BuildSections(BuildLabels, MaxSides), sz \in { 85 * Mm, 50 * Mm } :
          /\ settings = [BaseSettings EXCEPT !.safe_z = sz]
          /\ profiles \in
                { << Profile(1, PType2040, secs) >>,
                  << Profile(1, PType2040, secs),
                     Profile(2, PType2040, << [side |-> L_Top, xs |-> << Hole(1 * Mm) >>] >>) >> }
    /\ pc = "b_start"
    /\ pi = 0 /\ si = 0 /\ hi = 0 /\ y = None
    /\ lines = << >> /\ cycle = << >> /\ start_mm = 0 /\ current = 0 /\ n = 0 /\ k = 0
    /\ history = << >> /\ args = << >> /\ z = 0 /\ g = << >>
    /\ df = << >> /\ ri = 0 /\ profs = << >>

BuildSpec == BuildInit /\ [][BuildNext]_vars

\* ------------------------------------ strategies.slow_then_peck (1-22)

\* The most lines of g the model follows: a loop that would pass it is cut.
MaxLines == 20

\* A rapid of slow_then_peck to zd.
StratRapid(zd) == Num("G0 Z", zd, _fmt(zd, FALSE))

\* A feed move of slow_then_peck to zd at the integer feed f.
StratFeed(zd, f) == Ln("G1 Z", zd, _fmt(zd, FALSE), f, [neg |-> f < 0, n |-> Abs(f), dec |-> 0], << >>)

\* Lines 8 to 13: the approach.
StratStart ==
    /\ pc = "s_start"
    /\ g' = << StratRapid(args.z_from), StratFeed(args.z_from - 2 * Mm, args.feed_approach) >>
    /\ z' = args.z_from - 2 * Mm
    /\ pc' = "s_loop"
    /\ UNCHANGED <<settings, profiles, pi, si, hi, y, lines, cycle, start_mm, current, n, k,
                   history, args, df, ri, profs>>

\* Lines 14 to 19: one iteration of the peck loop.
StratPeck ==
    /\ pc = "s_loop"
    /\ z > args.z_to
    /\ Len(g) + 3 <= MaxLines
    /\ LET nxt == Max(z - args.peck_step, args.z_to)
       IN  /\ g' = g \o << StratFeed(nxt, args.feed_drill),
                           StratRapid(nxt + args.peck_retract),
                           StratFeed(nxt, args.feed_drill) >>
           /\ z' = nxt
    /\ UNCHANGED <<settings, profiles, pc, pi, si, hi, y, lines, cycle, start_mm, current, n, k,
                   history, args, df, ri, profs>>

\* Lines 14, 21 and 22: the loop is over; the rapid out and the return.
StratReturn ==
    /\ pc = "s_loop"
    /\ ~(z > args.z_to)
    /\ g' = Append(g, StratRapid(args.z_from))
    /\ pc' = "s_done"
    /\ UNCHANGED <<settings, profiles, pi, si, hi, y, lines, cycle, start_mm, current, n, k,
                   history, args, z, df, ri, profs>>

StratNext ==
    \/ StratStart
    \/ StratPeck
    \/ StratReturn

\* Calls of slow_then_peck: the start above, just above and below the end
\* depth, the peck step negative, zero and positive, up to larger than the hole.
StratInit ==
    /\ args \in [ z_from : { 10 * Mm, 5 * Mm, 4 * Mm }, z_to : { -2 * Mm, 2 * Mm, 8 * Mm },
                  z_clear : { 55 * Mm }, feed_approach : { 100 }, feed_drill : { 250 },
                  peck_step : { -3 * Mm, 0, 3 * Mm, 4 * Mm, 20 * Mm },
                  peck_retract : { Mm \div 2, -1 * Mm } ]
    /\ settings = BaseSettings
    /\ profiles = << >>
    /\ pc = "s_start"
    /\ pi = 0 /\ si = 0 /\ hi = 0 /\ y = None
    /\ lines = << >> /\ cycle = << >> /\ start_mm = 0 /\ current = 0 /\ n = 0 /\ k = 0
    /\ history = << >> /\ z = 0 /\ g = << >>
    /\ df = << >> /\ ri = 0 /\ profs = << >>

\* slow_then_peck runs without waiting on anything: a step it can take, it takes.
StratSpec == StratInit /\ [][StratNext]_vars /\ WF_vars(StratNext)

\* --------------------------------- excel_import.to_profiles (118-158)

\* The text of the longest run of digits of t that starts at i.
RECURSIVE DigitsFrom(_, _)
DigitsFrom(t, i) ==
    IF i <= Len(t) /\ IsDigit(t[i]) THEN << t[i] >> \o DigitsFrom(t, i + 1) ELSE << >>

\* The match of ZIJKANT\s*Y\s*([0-9]+) that starts at position i of t, if
\* any: group 1 as text, leading zeros kept.
MatchSideYAt(t, i) ==
    LET a == SkipSpaces(t, i + Len(S_ZIJKANT))
        b == SkipSpaces(t, a + 1)
    IN  IF /\ i + Len(S_ZIJKANT) - 1 <= Len(t)
           /\ SubSeq(t, i, i + Len(S_ZIJKANT) - 1) = S_ZIJKANT
           /\ a <= Len(t) /\ t[a] = "Y"
           /\ b <= Len(t) /\ IsDigit(t[b])
        THEN Some(DigitsFrom(t, b))
        ELSE None

\* Line 127: re.search finds the leftmost match; the second pattern of the
\* line matches nothing the first does not.
RECURSIVE SearchSideY(_, _)
SearchSideY(t, i) ==
    IF i > Len(t) THEN None
    ELSE IF MatchSideYAt(t, i) # None THEN MatchSideYAt(t, i)
    ELSE SearchSideY(t, i + 1)

S_TSLOT_A_JOINED == <<"T","S","L","O","T"," ","A">>

\* map_side(z) of lines 121 to 138, on the text str(z).
map_side(zl) ==
    LET u == Join(Split(Upper(zl)))
        m == SearchSideY(u, 1)
    IN  IF StartsWith(u, S_BOVENKANT) THEN L_Top
        ELSE IF m # None THEN S_ZIJKANT \o << " ", "Y" >> \o m[1]
        ELSE IF Contains(u, S_ZIJKANT) /\ Contains(u, << "B" >>) THEN L_SlotB
        ELSE IF /\ Contains(u, S_ZIJKANT)
                /\ \/ Contains(u, << "A" >>)
                   \/ Contains(u, S_TSLOT_A)
                   \/ Contains(u, S_TSLOT_A_JOINED)
             THEN L_SlotA
        ELSE IF Contains(u, S_ZIJKANT) THEN L_Y10
        ELSE L_Top

\* s.split(c): the pieces of s between the occurrences of c, empty ones kept.
RECURSIVE SplitOn(_, _, _, _)
SplitOn(s, c, i, piece) ==
    IF i > Len(s) THEN << piece >>
    ELSE IF s[i] = c THEN << piece >> \o SplitOn(s, c, i + 1, << >>)
    ELSE SplitOn(s, c, i + 1, Append(piece, s[i]))

\* The position after the run of digits of t that starts at i.
RECURSIVE DigitsEnd(_, _)
DigitsEnd(t, i) == IF i <= Len(t) /\ IsDigit(t[i]) THEN DigitsEnd(t, i + 1) ELSE i

\* The position after the match of \d+(?:\.\d+)? at position i of t, or 0
\* when t has no digit there.
NumberEnd(t, i) ==
    LET e == DigitsEnd(t, i)
    IN  IF e = i THEN 0
        ELSE IF e + 1 <= Len(t) /\ t[e] = "." /\ IsDigit(t[e + 1]) THEN DigitsEnd(t, e + 1)
        ELSE e

\* The value of the decimals of t from position i on, the first of them worth
\* scale / 10; the cells carry at most six decimals.
RECURSIVE FracFrom(_, _, _)
FracFrom(t, i, scale) ==
    IF i <= Len(t) /\ IsDigit(t[i])
    THEN DigitOf(t[i]) * (scale \div 10) + FracFrom(t, i + 1, scale \div 10)
    ELSE 0

\* float() of the text of t from i up to, not including, e, as matched by
\* \d+(?:\.\d+)?.
FloatOf(t, i, e) ==
    LET d == DigitsEnd(t, i)
    IN  IntFrom(t, i, 0) * Mm + (IF d < e THEN FracFrom(t, d + 1, Mm) ELSE 0)

\* HOLE_RE.match(t) of line 118: float(group 1), or None without a match.
HOLE_RE(t) ==
    LET a  == SkipSpaces(t, 1)
        e1 == NumberEnd(t, a)
        b  == SkipSpaces(t, e1)
        c  == SkipSpaces(t, b + 1)
        e2 == NumberEnd(t, c)
    IN  IF /\ e1 # 0
           /\ b <= Len(t) /\ t[b] = "@"
           /\ e2 # 0
           /\ SkipSpaces(t, e2) > Len(t)
        THEN Some(FloatOf(t, a, e1))
        ELSE None

\* Lines 147 to 153: the X positions of the cell s, None being an empty cell.
RECURSIVE PartXs(_)
PartXs(parts) ==
    IF parts = << >> THEN << >>
    ELSE LET m == HOLE_RE(Strip(Head(parts)))
         IN  (IF m # None THEN << Hole(m[1]) >> ELSE << >>) \o PartXs(Tail(parts))

CellXs(s) == IF s = None THEN << >> ELSE PartXs(SplitOn(s[1], "|", 1, << >>))

\* Lines 155 and 157: the position in profs of the profile named v, or 0; the
\* position in its sections of the side v, or 0.
IndexOfName(ps, v) ==
    IF \E j \in 1..Len(ps) : ps[j].name = v
    THEN CHOOSE j \in 1..Len(ps) : ps[j].name = v
    ELSE 0

IndexOfSide(secs, v) ==
    IF \E j \in 1..Len(secs) : secs[j].side = v
    THEN CHOOSE j \in 1..Len(secs) : secs[j].side = v
    ELSE 0

\* Line 157: sections.setdefault(side, []).extend(xs).
ExtendSide(secs, side, xs) ==
    LET j == IndexOfSide(secs, side)
    IN  IF j = 0 THEN Append(secs, [side |-> side, xs |-> xs])
        ELSE [secs EXCEPT ![j].xs = @ \o xs]

\* Line 142: str(...).strip() or "?".
RowName(r) == IF Strip(r.profiel_naam) = << >> THEN << "?" >> ELSE Strip(r.profiel_naam)

\* Line 140.
ToProfilesStart ==
    /\ pc = "t_start"
    /\ profs' = << >>
    /\ ri' = 1
    /\ pc' = "t_row"
    /\ UNCHANGED <<settings, profiles, pi, si, hi, y, lines, cycle, start_mm, current, n, k,
                   history, args, z, g, df>>

\* Lines 141 to 157: one row of the table.
ToProfilesRow ==
    /\ pc = "t_row"
    /\ ri <= Len(df)
    /\ LET r      == df[ri]
           name   == RowName(r)
           ptype  == Strip(r.profiel_type)
           length == IF r.lengte_mm = None THEN 0 ELSE r.lengte_mm[1]
           side   == map_side(r.zijde)
           xs     == CellXs(r.gaten)
           j      == IndexOfName(profs, name)
           fresh  == [ name |-> name, ptype |-> ptype, length_mm |-> length,
                       tool_diam |-> 4 * Mm, sections |-> << >> ]
           ps     == IF j = 0 THEN Append(profs, fresh) ELSE profs
           q      == IF j = 0 THEN Len(ps) ELSE j
       IN  profs' = [ps EXCEPT ![q].sections = ExtendSide(@, side, xs)]
    /\ ri' = ri + 1
    /\ UNCHANGED <<settings, profiles, pc, pi, si, hi, y, lines, cycle, start_mm, current, n, k,
                   history, args, z, g, df>>

\* Lines 141 and 158: the rows are over; list(profs.values()) is handed back.
ToProfilesReturn ==
    /\ pc = "t_row"
    /\ ri > Len(df)
    /\ pc' = "t_done"
    /\ UNCHANGED <<settings, profiles, pi, si, hi, y, lines, cycle, start_mm, current, n, k,
                   history, args, z, g, df, ri, profs>>

ToProfilesNext ==
    \/ ToProfilesStart
    \/ ToProfilesRow
    \/ ToProfilesReturn

\* The most rows of one table.
MaxRows == 2

L_Side == <<"Z","I","J","K","A","N","T">>

L_SideLower == <<"z","i","j","k","a","n","t">>

L_SideLinks == <<"Z","I","J","K","A","N","T"," ","l","i","n","k","s">>

L_SideBoven == <<"Z","I","J","K","A","N","T"," ","b","o","v","e","n">>

L_SideY == <<"Z","I","J","K","A","N","T"," ","Y">>

L_SlotOnly == <<"T","-","s","l","o","t"," ","A">>

L_SlotAJoined == <<"Z","I","J","K","A","N","T"," ","t","s","l","o","t"," ","a">>

\* The side labels to_profiles is tried on.
SideLabels ==
    Labels \cup { L_Y030Tight, L_Y7Y9, L_Side, L_SideLower, L_SideLinks, L_SideBoven, L_SideY,
                  L_SlotOnly, L_SlotAJoined }

N_P1 == <<"P","1">>

N_P1Spaced == <<" ","P","1"," ">>

N_P2 == <<"P","2">>

T_2040 == <<"2","0","x","4","0">>

\* Cells of the hole column: "10@4", "30@4", and one with a decimal position,
\* a part that is no hole, a spaced part and an empty last part.
G_10 == <<"1","0","@","4">>

G_30 == <<"3","0","@","4">>

G_Mixed ==
    <<"1","0","@","4"," ","|"," ","2","0",".","5","@","4","|","x","@","4","|"," ","7"," ","@",
      " ","3",".","5"," ","|">>

G_NoHole == <<"1","0",".","@","4","|","@","4","|","1","0","@","4","m","m">>

Row(name, zijde, gaten) ==
    [ profiel_naam |-> name, profiel_type |-> T_2040, lengte_mm |-> Some(1000 * Mm),
      zijde |-> zijde, gaten |-> gaten ]

\* The rows tried: every label on profile P1 with one hole, and rows that vary
\* the name, the length and the hole cell.
Rows ==
    { Row(N_P1, l, Some(G_10)) : l \in SideLabels }
    \cup { Row(nm, L_Top, Some(G_30)) : nm \in { N_P1Spaced, N_P2, << >> } }
    \cup { Row(N_P1, L_Side, c) : c \in { None, Some(G_Mixed), Some(G_NoHole), Some(<< >>) } }
    \cup { [Row(N_P2, L_SlotB, Some(G_30)) EXCEPT !.lengte_mm = None] }

\* Calls of to_profiles: the tables of at most MaxRows of these rows.
ToProfilesInit ==
    /\ df \in UNION { [1..j -> Rows] : j \in 0..MaxRows }
    /\ settings = BaseSettings
    /\ profiles = << >>
    /\ pc = "t_start"
    /\ pi = 0 /\ si = 0 /\ hi = 0 /\ y = None
    /\ lines = << >> /\ cycle = << >> /\ start_mm = 0 /\ current = 0 /\ n = 0 /\ k = 0
    /\ history = << >> /\ args = << >> /\ z = 0 /\ g = << >>
    /\ ri = 0 /\ profs = << >>

ToProfilesSpec == ToProfilesInit /\ [][ToProfilesNext]_vars

\* ------------------------------------------------------------- the claims

IsFeed(l) == l.op = "G1 Z"

IsRapidZ(l) == l.op = "G0 Z"

\* The drill cycle of the current hole has returned its lines (in cycle).
Returned == pc = "return"

\* Whether the returned cycle starts with the slow-start move.
HasSlowMove == start_mm > 0

\* The Z cursor when the slow-start phase is over, read off the cycle.
EffectiveStartZ == IF HasSlowMove THEN cycle[1].v ELSE top_z

\* The feed moves of the returned cycle that follow the slow-start phase.
LaterFeeds ==
    LET f == SelectSeq(cycle, IsFeed)
    IN  IF HasSlowMove THEN Tail(f) ELSE f

\* C1 as stated: peck and slow-start off, the returned cycle is the feed move
\* to target_z then the rapid to safe_z, and is the rapid alone exactly when
\* top_z = target_z.
C1_AsStated ==
    (Returned /\ ~peck_enable /\ ~slow_start_enable) =>
        /\ (top_z # target_z) =>
              /\ Len(cycle) = 2
              /\ cycle[1].op = "G1 Z" /\ cycle[1].v = target_z
              /\ cycle[2].op = "G0 Z" /\ cycle[2].v = safe_z
        /\ (top_z = target_z) =>
              /\ Len(cycle) = 1
              /\ cycle[1].op = "G0 Z" /\ cycle[1].v = safe_z

\* C1 amended: peck and slow-start off, the returned cycle is the feed move to
\* target_z (at plunge_f) then the rapid to safe_z when target_z < top_z, and
\* is the rapid to safe_z alone exactly when target_z >= top_z (depth >= 0).
C1_PlainCycle ==
    (Returned /\ ~peck_enable /\ ~slow_start_enable) =>
        /\ (target_z < top_z) =>
              /\ Len(cycle) = 2
              /\ cycle[1].op = "G1 Z" /\ cycle[1].v = target_z /\ cycle[1].fv = plunge_f
              /\ cycle[1].t = _fmt(target_z, tap)
              /\ cycle[2].op = "G0 Z" /\ cycle[2].v = safe_z /\ cycle[2].t = _fmt(safe_z, tap)
        /\ (target_z >= top_z) =>
              /\ Len(cycle) = 1
              /\ cycle[1].op = "G0 Z" /\ cycle[1].v = safe_z /\ cycle[1].t = _fmt(safe_z, tap)

\* A plain cycle of a hole drilled upward-configured (depth > 0): the rapid alone.
C1_Witness ==
    /\ Returned /\ ~peck_enable /\ ~slow_start_enable
    /\ depth > 0
    /\ Len(cycle) = 1

C3_SlowStartClamped ==
    /\ 0 <= start_mm /\ start_mm <= Abs(depth)
    /\ (pc \in {"peck", "plunge", "pecking", "return"} /\ HasSlowMove) =>
          /\ cycle[1].op = "G1 Z"
          /\ Min(target_z, top_z) <= cycle[1].v
          /\ cycle[1].v <= Max(target_z, top_z)
          /\ cycle[1].v = top_z - start_mm \/ cycle[1].v = target_z

\* A slow start asked to go further than the hole is deep, cut to the depth.
C3_Witness ==
    /\ Returned /\ slow_start_enable
    /\ StartMmAsked(CurProfile.ptype) > Abs(depth)
    /\ depth < 0
    /\ start_mm = Abs(depth)
    /\ cycle[1].v = target_z

\* The sides of a section table that _side_to_y does not resolve, in order.
RECURSIVE UnresolvedSides(_)
UnresolvedSides(secs) ==
    IF secs = << >> THEN << >>
    ELSE (IF _side_to_y(secs[1].side, settings) = None THEN << secs[1].side >> ELSE << >>)
         \o UnresolvedSides(Tail(secs))

\* The positions of a hole list that are numbers, as floats, in order.
RECURSIVE NumericXs(_)
NumericXs(xs) ==
    IF xs = << >> THEN << >>
    ELSE (IF xs[1].isnum THEN << xs[1].val >> ELSE << >>) \o NumericXs(Tail(xs))

\* The hole positions of the resolvable sides of a section table, side by side.
RECURSIVE SectionXs(_)
SectionXs(secs) ==
    IF secs = << >> THEN << >>
    ELSE (IF _side_to_y(secs[1].side, settings) = None THEN << >> ELSE NumericXs(secs[1].xs))
         \o SectionXs(Tail(secs))

\* The same, profile by profile.
RECURSIVE ProgramXs(_)
ProgramXs(ps) ==
    IF ps = << >> THEN << >> ELSE SectionXs(ps[1].sections) \o ProgramXs(Tail(ps))

\* The number of sides of the profiles that _side_to_y resolves.
RECURSIVE ResolvedCount(_)
ResolvedCount(ps) ==
    IF ps = << >> THEN 0
    ELSE Len(ps[1].sections) - Len(UnresolvedSides(ps[1].sections)) + ResolvedCount(Tail(ps))

RECURSIVE ProgramUnresolved(_)
ProgramUnresolved(ps) ==
    IF ps = << >> THEN << >>
    ELSE UnresolvedSides(ps[1].sections) \o ProgramUnresolved(Tail(ps))

IsHoleMove(l) == l.op = "G0 X"

IsSkip(l) == l.op = "(SKIP onbekende zijde:"

IsSideMove(l) == l.op = "G0 Y"

\* The destinations of the moves to a hole, in output order.
XMoves == LET m == SelectSeq(lines, IsHoleMove) IN [j \in 1..Len(m) |-> m[j].v]

\* The sides named by the skip comments, in output order.
SkippedSides == LET m == SelectSeq(lines, IsSkip) IN [j \in 1..Len(m) |-> m[j].s]

\* Every move to a hole is followed at once by a drill cycle (its first line:
\* a feed move or the rapid to safe_z).
EveryHoleDrilled ==
    \A j \in 1..Len(lines) :
        IsHoleMove(lines[j]) => j < Len(lines) /\ lines[j + 1].op \in {"G1 Z", "G0 Z"}

\* C4 as stated: with a side that does not resolve among the profiles, the call
\* does not raise, and the program returned has one skip comment per such side,
\* one move to Y per resolvable side, and every hole of the resolvable sides
\* with its drill cycle.
C4_AsStated ==
    (ProgramUnresolved(profiles) # << >>) =>
        /\ pc # "raised"
        /\ pc = "done" =>
              /\ SkippedSides = ProgramUnresolved(profiles)
              /\ Len(SelectSeq(lines, IsSideMove)) = ResolvedCount(profiles)
              /\ XMoves = ProgramXs(profiles)
              /\ EveryHoleDrilled

\* What does hold of a side that does not resolve: the step that meets it never
\* raises and adds the skip comment alone, and a call that returns has skipped
\* exactly those sides and drilled every hole of the others.
C4_SkipIsLocal ==
    /\ (pc = "side" /\ si > 1 /\ y = None) =>
          /\ IsSkip(lines[Len(lines)])
          /\ lines[Len(lines)].s = CurSections[si - 1].side
    /\ pc = "done" =>
          /\ SkippedSides = ProgramUnresolved(profiles)
          /\ Len(SelectSeq(lines, IsSideMove)) = ResolvedCount(profiles)
          /\ XMoves = ProgramXs(profiles)
          /\ EveryHoleDrilled

SafeRapids == SelectSeq(cycle, LAMBDA l : IsRapidZ(l) /\ l.v = safe_z)

\* C6 as stated: the returned cycle ends with the rapid to safe_z and holds
\* exactly one rapid to safe_z.
C6_AsStated ==
    Returned =>
        /\ cycle # << >>
        /\ IsRapidZ(cycle[Len(cycle)]) /\ cycle[Len(cycle)].v = safe_z
        /\ Len(SafeRapids) = 1

\* C6 amended: the returned cycle ends with the rapid to safe_z; every rapid
\* before it is a peck retract to at most top_z, so with safe_z above top_z the
\* cycle holds exactly one rapid to safe_z.
C6_FinalRetract ==
    Returned =>
        /\ cycle # << >>
        /\ IsRapidZ(cycle[Len(cycle)]) /\ cycle[Len(cycle)].v = safe_z
        /\ cycle[Len(cycle)].t = _fmt(safe_z, tap)
        /\ \A j \in 1..(Len(cycle) - 1) : IsRapidZ(cycle[j]) => cycle[j].v <= top_z
        /\ safe_z > top_z => Len(SafeRapids) = 1

\* A cycle with slow start, pecks and retracts under a safe height above the top.
C6_Witness ==
    /\ Returned /\ peck_enable /\ slow_start_enable
    /\ safe_z > top_z
    /\ Len(SelectSeq(cycle, IsRapidZ)) >= 3
    /\ Len(SafeRapids) = 1

\* The kinds of the output lines, in order.
Ops == [j \in 1..Len(lines) |-> lines[j].op]

IsHoming(op) == op \in {"G28 G91 Z0.", "G28 G91 X0. Y0."}

\* The last line of a profile block, or of the preamble when there is none: the
\* last line that is neither a stop, a homing line, its G90, nor the end marker.
BlocksEnd ==
    LET body == { j \in 1..Len(lines) : lines[j].op \in {"G0 Z", "G1 Z", "G4 P", "G0 X", "G0 Y",
                                                        "(SKIP onbekende zijde:", "(side)",
                                                        "(ZIJKANT", "G0 Y300.", "G0 Y300.000"} }
    IN  CHOOSE j \in body : \A i \in body : i <= j

\* C7 as stated: in the program returned, in either dialect, the lines after the
\* last profile block are M9 exactly when coolant was on (so every M8 has an M9
\* after it), then M5 for the preamble's M3, then homing, then M30 last.
C7_AsStated ==
    pc = "done" =>
        LET e == BlocksEnd
            post == SubSeq(Ops, e + 1, Len(lines))
        IN  /\ post # << >> /\ post[Len(post)] = "M30"
            /\ coolant_on <=> (post[1] = "M9")
            /\ \A j \in 1..Len(lines) : Ops[j] = "M8" => \E i \in (j + 1)..Len(lines) : Ops[i] = "M9"
            /\ (\E j \in 1..e : Ops[j] = "S M3") =>
                  \E i \in 1..Len(post) :
                      /\ post[i] = "M5"
                      /\ i = (IF coolant_on THEN 2 ELSE 1)
                      /\ \E h \in (i + 1)..(Len(post) - 1) : IsHoming(post[h])

\* What the tap dialect does: the postamble of C7, line for line.
C7_TapPostamble ==
    (pc = "done" /\ tap) =>
        SubSeq(Ops, BlocksEnd + 1, Len(lines)) =
            (IF coolant_on THEN << "M9" >> ELSE << >>)
            \o << "M5", "G28 G91 Z0.", "G90", "G28 G91 X0. Y0.", "G90", "M30" >>

\* What the other dialect does: M30 alone, after M3 and, with coolant, M8.
C7_NcPostamble ==
    (pc = "done" /\ ~tap) =>
        /\ SubSeq(Ops, BlocksEnd + 1, Len(lines)) = << "M30" >>
        /\ \E j \in 1..Len(lines) : Ops[j] = "S M3"
        /\ coolant_on <=> \E j \in 1..Len(lines) : Ops[j] = "M8"

\* The destinations of a sequence of lines go strictly down.
StrictlyDown(f) == \A j \in 1..(Len(f) - 1) : f[j + 1].v < f[j].v

\* C8 as stated: with pecking on and the cursor above target_z (by more than the
\* tolerance) when the peck phase is entered, whatever the sign of peck_step or
\* its being 0, the call does not stop short of the hole: it does not raise, and
\* the cycle returned has at least one peck, each peck's feed move ending
\* strictly below the one before, the last at target_z.
C8_AsStated ==
    /\ pc # "raised"
    /\ (Returned /\ peck_enable /\ EffectiveStartZ > target_z + Eps) =>
          /\ Len(LaterFeeds) >= 1
          /\ StrictlyDown(LaterFeeds)
          /\ LaterFeeds[Len(LaterFeeds)].v = target_z

\* What does hold: a call raises only in the peck phase with peck_step 0, and
\* with any other step the pecks go strictly down to target_z, as many as
\* ceil(remaining / |peck_step|).
C8_NonZeroStep ==
    /\ pc = "raised" => peck_enable /\ settings.peck_step = 0
    /\ (Returned /\ peck_enable /\ EffectiveStartZ > target_z + Eps) =>
          /\ settings.peck_step # 0
          /\ Len(LaterFeeds) = Ceil(EffectiveStartZ - target_z, Abs(settings.peck_step))
          /\ StrictlyDown(LaterFeeds)
          /\ LaterFeeds[Len(LaterFeeds)].v = target_z

\* The side whose Y is in y: the current one while its holes are drilled.
MappedSide == CurSide.side

\* A side has just been mapped and its holes are being visited.
SideMapped == pc = "hole"

\* C9 as stated: a side whose label is "ZIJKANT <key>" for a key of y_map is
\* mapped to the value stored under that key, whatever else the table holds and
\* in whatever order.
C9_AsStated ==
    SideMapped =>
        \A j \in 1..Len(settings.y_map) :
            NormSide(MappedSide) = S_ZIJKANT \o << " " >> \o settings.y_map[j].key
                => y = Some(settings.y_map[j].val)

\* What does hold: such a side is mapped to the value of the first key, in the
\* table's iteration order, that its token starts with.
C9_FirstPrefixKey ==
    SideMapped =>
        \A j \in 1..Len(settings.y_map) :
            NormSide(MappedSide) = S_ZIJKANT \o << " " >> \o settings.y_map[j].key
                => \E i \in 1..j :
                      /\ y = Some(settings.y_map[i].val)
                      /\ StartsWith(settings.y_map[j].key, settings.y_map[i].key)
                      /\ \A h \in 1..(i - 1) :
                            ~StartsWith(settings.y_map[j].key, settings.y_map[h].key)

\* The label families, each by the test of the mapper on the normalised label.
FamilyTop(u) == StartsWith(u, S_BOVENKANT)

FamilySlotA(u) == Contains(u, S_ZIJKANT) /\ Contains(u, S_TSLOT_A)

FamilySlotB(u) == Contains(u, S_ZIJKANT) /\ Contains(u, S_TSLOT_B)

\* The values of the y_map keys that the numbered-side test finds in u.
NumberedValues(u) ==
    { settings.y_map[j].val : j \in { i \in 1..Len(settings.y_map) :
                                        Contains(u, S_ZIJKANT \o << " " >> \o settings.y_map[i].key) } }

\* A label in lower case with every space doubled and one space before it.
RECURSIVE Respell(_)
Respell(s) ==
    IF s = << >> THEN << >>
    ELSE (IF s[1] = " " THEN << " ", " " >>
          ELSE << CASE s[1] = "A" -> "a" [] s[1] = "B" -> "b" [] s[1] = "E" -> "e"
                    [] s[1] = "I" -> "i" [] s[1] = "J" -> "j" [] s[1] = "K" -> "k"
                    [] s[1] = "L" -> "l" [] s[1] = "M" -> "m" [] s[1] = "N" -> "n"
                    [] s[1] = "O" -> "o" [] s[1] = "R" -> "r" [] s[1] = "S" -> "s"
                    [] s[1] = "T" -> "t" [] s[1] = "V" -> "v" [] s[1] = "Y" -> "y"
                    [] s[1] = "Z" -> "z" [] OTHER -> s[1] >>)
         \o Respell(Tail(s))

\* The label whose mapping the state shows: the current side while its holes are
\* visited, the side before the current one after a skip.
ShownSide == IF pc = "hole" THEN CurSide.side ELSE CurSections[si - 1].side

\* The state shows the mapping of a side.
MappingShown == pc = "hole" \/ (pc = "side" /\ si > 1)

\* C10: the mapping of a side is that of the first family its label is in, in
\* the order top face, T-slot A, T-slot B, numbered side (there, the value of a
\* key found in the label); it is None for a label in no family; and it is the
\* same for the label respelled in lower case with its spaces doubled.
C10_FamilyPriority ==
    MappingShown =>
        LET u == Upper(Join(Split(ShownSide))) IN
        /\ FamilyTop(u) => y = Some(settings.y_top)
        /\ (~FamilyTop(u) /\ FamilySlotA(u)) => y = Some(settings.y_slot_a)
        /\ (~FamilyTop(u) /\ ~FamilySlotA(u) /\ FamilySlotB(u)) => y = Some(settings.y_slot_b)
        /\ (~FamilyTop(u) /\ ~FamilySlotA(u) /\ ~FamilySlotB(u) /\ NumberedValues(u) # { }) =>
              y # None /\ y[1] \in NumberedValues(u)
        /\ (~FamilyTop(u) /\ ~FamilySlotA(u) /\ ~FamilySlotB(u) /\ NumberedValues(u) = { }) =>
              y = None
        /\ _side_to_y(<< " " >> \o Respell(ShownSide), settings) = y

\* A label of both T-slot families, in mixed case, mapped to the T-slot A
\* coordinate, which differs from the T-slot B one.
C10_Witness ==
    /\ pc = "hole"
    /\ CurSide.side = L_SlotBA
    /\ settings.y_slot_a # settings.y_slot_b
    /\ y = Some(settings.y_slot_a)

\* ------------------------------------------------------------------ C11

\* The lines of a program text from its first profile marker on.
RECURSIVE FromFirstProfile(_)
FromFirstProfile(out) ==
    IF out = << >> THEN << >>
    ELSE IF Head(out).op = "(PROFILE" THEN out
    ELSE FromFirstProfile(Tail(out))

\* A G0, G1 or G4 line.
IsMotion(l) ==
    l.op \in { "G0 X", "G0 Y", "G0 Z", "G1 Z", "G4 P",
               "G0 X0.", "G0 X0.000", "G0 Y300.", "G0 Y300.000" }

\* The instruction and axis of a motion line and the value it commands.
MotionOf(l) ==
    CASE l.op \in { "G0 X0.", "G0 X0.000" } -> << "G0 X", 0 >>
      [] l.op \in { "G0 Y300.", "G0 Y300.000" } -> << "G0 Y", 300 * Mm >>
      [] OTHER -> << l.op, l.v >>

\* The motion instructions inside the profile blocks of a program text.
BlockMotions(out) ==
    LET m == SelectSeq(FromFirstProfile(out), IsMotion)
    IN  [j \in 1..Len(m) |-> MotionOf(m[j])]

\* Two calls given the same profiles and the same settings but for tap_mode.
SameButTap(a, b) ==
    /\ a.profiles = b.profiles
    /\ [a.settings EXCEPT !.tap_mode = FALSE] = [b.settings EXCEPT !.tap_mode = FALSE]

\* C11: two calls of generate_gcode with the same profiles and the same
\* settings except for tap_mode end the same way (both return or both raise)
\* and, inside the profile blocks, their outputs hold the same sequence of
\* motion instructions: same G0/G1/G4 kind and axis, same count and order,
\* same unformatted values.
C11_DialectOnlyFormats ==
    \A i, j \in DOMAIN Finished :
        SameButTap(Finished[i], Finished[j]) =>
            /\ Finished[i].raised = Finished[j].raised
            /\ BlockMotions(Finished[i].out) = BlockMotions(Finished[j].out)

\* Two calls that differ in tap_mode only have returned texts that differ,
\* each with feed moves, retracts and a dwell.
C11_Witness ==
    \E i, j \in DOMAIN Finished :
        /\ SameButTap(Finished[i], Finished[j])
        /\ Finished[i].settings.tap_mode /\ ~Finished[j].settings.tap_mode
        /\ ~Finished[i].raised
        /\ Finished[i].out # Finished[j].out
        /\ \E q \in DOMAIN BlockMotions(Finished[i].out) :
              BlockMotions(Finished[i].out)[q][1] = "G4 P"
        /\ Len(SelectSeq(Finished[i].out, IsFeed)) = 3

\* ------------------------------------------------------------------ C12

\* Two calls given the same profiles and the same settings.
SameInputs(a, b) == a.profiles = b.profiles /\ a.settings = b.settings

\* Calls given the same inputs ended the same way with the same text.
SameOutcomes ==
    \A i, j \in DOMAIN Finished :
        SameInputs(Finished[i], Finished[j]) =>
            /\ Finished[i].raised = Finished[j].raised
            /\ Finished[i].out = Finished[j].out

\* C12: generate_gcode is deterministic and stateless across invocations: two
\* calls with identical profiles and settings, in any order and with any
\* other calls in between, return identical output (or raise alike), and no
\* step of a call changes the profile records or the settings.
C12_Deterministic ==
    /\ []SameOutcomes
    /\ [][~Over => UNCHANGED <<settings, profiles>>]_vars

\* Three calls are over: the first and the third were given the same inputs,
\* the second other settings, and the first returned a program that drills.
C12_Witness ==
    /\ Len(Finished) = 3
    /\ SameInputs(Finished[1], Finished[3])
    /\ Finished[2].settings # Finished[1].settings
    /\ ~Finished[1].raised /\ ~Finished[2].raised
    /\ Finished[1].out # Finished[2].out
    /\ \E q \in DOMAIN Finished[1].out : IsFeed(Finished[1].out[q])

\* ------------------------------------------------------------------ C13

IsProfileMarker(l) == l.op = "(PROFILE"

\* C13: for an empty profile list, generate_gcode does not raise and returns
\* a non-empty program that is exactly the preamble lines followed by the
\* postamble lines (ending in M30), with no profile marker, no positioning
\* move to a hole and no drilling feed move.
C13_EmptyProgram ==
    (profiles = << >>) =>
        /\ pc # "raised"
        /\ (pc = "done") =>
              /\ lines # << >>
              /\ lines = PreambleLines \o PostambleLines
              /\ lines[1].op \in { "(G-CODE)", "(title)" }
              /\ lines[Len(lines)].op = "M30"
              /\ \A j \in DOMAIN lines :
                    ~IsProfileMarker(lines[j]) /\ ~IsHoleMove(lines[j]) /\ ~IsFeed(lines[j])

\* A call with no profile has returned, under settings (pecking with a zero
\* step, coolant, the tap dialect) that raise as soon as there is a hole.
C13_Witness ==
    /\ profiles = << >>
    /\ pc = "done"
    /\ peck_enable /\ peck_step = 0
    /\ tap /\ coolant_on
    /\ Len(lines) = 16

\* ------------------------------------------------------------------ C14

\* The family _side_to_y puts a side label in, by its priority.
SideFamily(side) ==
    LET u == NormSide(side)
    IN  IF FamilyTop(u) THEN "top"
        ELSE IF FamilySlotA(u) THEN "slot_a"
        ELSE IF FamilySlotB(u) THEN "slot_b"
        ELSE "other"

HasFamily(p, fam) == \E j \in 1..Len(p.sections) : SideFamily(p.sections[j].side) = fam

\* The text holds the placement marker op for the profile named name.
MarkerPresent(op, name) == \E j \in 1..Len(lines) : lines[j].op = op /\ lines[j].s = name

BuildOver == pc = "b_done"

\* C14 as stated: in the text build_program returns, a profile has the
\* BOVENKANT, ZIJKANT A or ZIJKANT B placement marker exactly when it has a
\* side of the top-face, T-slot A or T-slot B family.
C14_AsStated ==
    BuildOver =>
        \A q \in 1..Len(profiles) :
            /\ MarkerPresent("(PLAATS PROFIEL: BOVENKANT)", profiles[q].name)
                  <=> HasFamily(profiles[q], "top")
            /\ MarkerPresent("(PLAATS PROFIEL: ZIJKANT A)", profiles[q].name)
                  <=> HasFamily(profiles[q], "slot_a")
            /\ MarkerPresent("(PLAATS PROFIEL: ZIJKANT B)", profiles[q].name)
                  <=> HasFamily(profiles[q], "slot_b")

\* What holds of the markers: a profile with a side of a family has the
\* family's marker, and the ZIJKANT A marker is there exactly when some key
\* holds ZIJKANT (the "A" of line 83 is found in ZIJKANT itself).
C14_MarkerWhenPresent ==
    BuildOver =>
        \A q \in 1..Len(profiles) :
            /\ HasFamily(profiles[q], "top")
                  => MarkerPresent("(PLAATS PROFIEL: BOVENKANT)", profiles[q].name)
            /\ HasFamily(profiles[q], "slot_a")
                  => MarkerPresent("(PLAATS PROFIEL: ZIJKANT A)", profiles[q].name)
            /\ HasFamily(profiles[q], "slot_b")
                  => MarkerPresent("(PLAATS PROFIEL: ZIJKANT B)", profiles[q].name)
            /\ MarkerPresent("(PLAATS PROFIEL: ZIJKANT A)", profiles[q].name)
                  <=> \E j \in 1..Len(profiles[q].sections) :
                         Contains(Upper(profiles[q].sections[j].side), S_ZIJKANT)

\* ------------------------------------------------------------------ C15

\* A rapid to the reference X, written "G0 X0.000" or "G0 X0.".
IsRefX(l) == l.op \in { "G0 X0.000", "G0 X0." }

\* A rapid to the reference Y, written "G0 Y300.000" or "G0 Y300.".
IsRefY(l) == l.op \in { "G0 Y300.000", "G0 Y300." }

\* A rapid to the height h: a computed one, or the literal of pipeline.py:75.
IsRapidTo(l, h) ==
    \/ l.op = "G0 Z" /\ l.v = h
    \/ l.op = "G0 Z85.000" /\ h = 85 * Mm

\* The three lines after line j are the safe-travel preamble with safe height h.
SafeTravelAfter(j, h) ==
    /\ j + 3 <= Len(lines)
    /\ IsRefX(lines[j + 1])
    /\ IsRapidTo(lines[j + 2], h)
    /\ IsRefY(lines[j + 3])

\* C15 as stated: every profile-start comment is immediately followed by the
\* rapid to the reference X, the rapid to the configured safe Z height and the
\* rapid to the reference Y, in this order.
C15_AsStated ==
    \A j \in 1..Len(lines) : IsProfileMarker(lines[j]) => SafeTravelAfter(j, safe_z)

\* What build_program does: the height of its preamble is always 85.
C15_BuildFixedHeight ==
    \A j \in 1..Len(lines) : IsProfileMarker(lines[j]) => SafeTravelAfter(j, 85 * Mm)

\* ------------------------------------------------------------------ C16

\* Some side that resolves holds a position that is not a number.
RECURSIVE HasBadHole(_)
HasBadHole(secs) ==
    /\ secs # << >>
    /\ \/ /\ _side_to_y(secs[1].side, settings) # None
          /\ \E j \in 1..Len(secs[1].xs) : ~secs[1].xs[j].isnum
       \/ HasBadHole(Tail(secs))

ProgramHasBadHole == \E q \in 1..Len(profiles) : HasBadHole(profiles[q].sections)

\* The rapids to safe_z that end a drill cycle: those right after a feed move,
\* a retract, a dwell or a move to a hole.
CycleEnds ==
    { j \in 2..Len(lines) :
        /\ IsRapidZ(lines[j]) /\ lines[j].v = safe_z
        /\ lines[j - 1].op \in { "G1 Z", "G0 X", "G4 P" } }

\* C16 as stated: when a side holds a position that cannot be converted to a
\* number, the call does not raise, and the program returned has no move and
\* no drill cycle for that value while every other hole of the side is there
\* in order with its drill cycle.
C16_AsStated ==
    ProgramHasBadHole =>
        /\ pc # "raised"
        /\ pc = "done" =>
              /\ XMoves = ProgramXs(profiles)
              /\ EveryHoleDrilled
              /\ Len(SelectSeq(lines, IsHoleMove)) <= Cardinality(CycleEnds)

\* What does hold of such a value: the step that meets it adds no line, does
\* not raise and goes on to the next position of the side.
C16_SkipIsLocal ==
    [][ (pc = "hole" /\ hi <= Len(CurSide.xs) /\ ~CurHole.isnum)
            => (lines' = lines /\ pc' = "hole" /\ hi' = hi + 1) ]_vars

\* ------------------------------------------------------------------ C17

\* drill_moves_for_one_hole is running or has just returned: cycle holds the
\* lines of the current hole.
InCycle == pc \in { "peck", "pecking", "plunge", "return" }

\* The positions of cycle that are not the final rapid to safe_z.
BeforeFinalRapid ==
    { j \in 1..Len(cycle) : ~(pc = "return" /\ j = Len(cycle)) }

\* C17: throughout a drill cycle, whatever the strategy, the sign of depth and
\* the size of peck_retract, every Z commanded before the final rapid to
\* safe_z stays within the hole: no feed move ends below target_z and no
\* retract ends above top_z.
C17_WithinHole ==
    InCycle =>
        \A j \in BeforeFinalRapid :
            /\ IsFeed(cycle[j]) => cycle[j].v >= target_z
            /\ IsRapidZ(cycle[j]) => cycle[j].v <= top_z

\* A returned peck cycle after a slow start, with a retract distance larger
\* than the hole is deep: a retract clamped at top_z and a feed that ends at
\* target_z.
C17_Witness ==
    /\ Returned /\ peck_enable /\ HasSlowMove
    /\ peck_retract > Abs(depth)
    /\ \E j \in BeforeFinalRapid : IsRapidZ(cycle[j]) /\ cycle[j].v = top_z
    /\ \E j \in BeforeFinalRapid : IsFeed(cycle[j]) /\ cycle[j].v = target_z

\* ------------------------------------------------------------------ C18

\* The feed moves of the returned cycle, in order.
CycleFeeds == SelectSeq(cycle, IsFeed)

\* C18 as stated: when slow start is enabled and start_mm > 0, the slow-start
\* move is the first feed move of the hole, its feed is plunge_f times
\* slow_start_feed_mult and is never greater than plunge_f, and every later
\* feed move of the hole carries plunge_f.
C18_AsStated ==
    (Returned /\ slow_start_enable /\ start_mm > 0) =>
        /\ IsFeed(cycle[1])
        /\ cycle[1].fv = (plunge_f \div 100) * slow_start_feed_mult
        /\ cycle[1].fv <= plunge_f
        /\ \A j \in 2..Len(CycleFeeds) : CycleFeeds[j].fv = plunge_f

\* What does hold of the feeds: the slow-start move comes first with feed
\* plunge_f times max(0.01, slow_start_feed_mult), which is greater than
\* plunge_f exactly when the multiplier configured is greater than 1, and
\* every later feed move carries plunge_f.
C18_FeedsAsComputed ==
    (Returned /\ slow_start_enable /\ start_mm > 0) =>
        /\ IsFeed(cycle[1])
        /\ cycle[1].fv = (plunge_f \div 100) * Max(1, settings.slow_start_feed_mult)
        /\ cycle[1].ft = _fmt(cycle[1].fv, tap)
        /\ (cycle[1].fv > plunge_f) <=> (settings.slow_start_feed_mult > 100)
        /\ \A j \in 2..Len(CycleFeeds) : CycleFeeds[j].fv = plunge_f

\* ------------------------------------------------------------------ C19

\* The lines of the returned cycle that follow the slow-start move.
PeckPart == IF HasSlowMove THEN Tail(cycle) ELSE cycle

IsDwell(l) == l.op = "G4 P"

\* C19: with peck enabled, if the cursor has already reached target_z when the
\* peck phase is entered, the cycle has no peck feed move, no retract and no
\* dwell, only the rapid to safe_z; otherwise every peck feed move that stops
\* above target_z is immediately followed by a rapid retract (then by a dwell
\* exactly when peck_dwell_ms > 0), and the feed move that reaches target_z is
\* followed directly by the rapid to safe_z, which ends the cycle.
C19_PeckPattern ==
    (Returned /\ peck_enable) =>
        LET q == PeckPart IN
        /\ (EffectiveStartZ <= target_z) => q = << RapidLine(safe_z) >>
        /\ (EffectiveStartZ > target_z) =>
              \A j \in 1..Len(q) :
                  /\ (IsFeed(q[j]) /\ q[j].v > target_z) =>
                        /\ j + 1 <= Len(q)
                        /\ q[j + 1] = RapidLine(RetractZ(q[j].v))
                        /\ (peck_dwell_ms > 0) => (j + 2 <= Len(q) /\ IsDwell(q[j + 2]))
                        /\ (peck_dwell_ms = 0) => (j + 2 <= Len(q) /\ IsFeed(q[j + 2]))
                  /\ (IsFeed(q[j]) /\ q[j].v = target_z) =>
                        /\ j + 1 = Len(q)
                        /\ q[j + 1] = RapidLine(safe_z)
                  /\ IsFeed(q[j]) => q[j].fv = plunge_f /\ q[j].v >= target_z
                  /\ IsDwell(q[j]) => j > 2 /\ IsRapidZ(q[j - 1]) /\ IsFeed(q[j - 2])

\* A returned peck cycle with a dwell configured: three pecks, the first two
\* each followed by a retract and a dwell, the third by the rapid to safe_z.
C19_Witness ==
    /\ Returned /\ peck_enable /\ ~HasSlowMove
    /\ peck_dwell_ms > 0
    /\ Len(cycle) = 8
    /\ Len(SelectSeq(cycle, IsFeed)) = 3
    /\ Len(SelectSeq(cycle, IsDwell)) = 2

\* ------------------------------------------------------------------ C20

StratOver == pc = "s_done"

\* The peck loop of the call has run at least once.
StratPecked == Len(g) > 3

\* C20 as stated: slow_then_peck terminates for every peck_step (zero and
\* negative included) and every z_from, z_to: its peck loop ends after
\* finitely many iterations, with the cursor equal to z_to when it has run,
\* and each iteration lowers the cursor strictly.
C20_AsStated ==
    /\ <>(StratOver /\ (StratPecked => z = args.z_to))
    /\ [][(pc = "s_loop" /\ pc' = "s_loop") => z' < z]_vars

\* What does hold: with a positive peck_step the call returns, after pecks
\* that each lower the cursor, with the cursor at z_to when the loop has run.
C20_PositiveStepTerminates ==
    /\ (args.peck_step > 0) => <>(StratOver /\ (StratPecked => z = args.z_to))
    /\ [][(args.peck_step > 0 /\ pc = "s_loop" /\ pc' = "s_loop") => z' < z]_vars

\* And with a peck_step of zero or less, a call that enters the loop never
\* returns: the cursor stays (zero) or rises (negative) and g only grows.
C20_NoReturnOtherwise ==
    (args.peck_step <= 0 /\ args.z_from - 2 * Mm > args.z_to) =>
        /\ pc # "s_done"
        /\ pc = "s_loop" => z >= args.z_from - 2 * Mm

\* ------------------------------------------------------------------ C21

\* The rows to_profiles has been through.
RowsDone == IF pc \in { "t_row", "t_done" } THEN 1..(ri - 1) ELSE { }

\* The label of row j as map_side compares it: upper case, whitespace collapsed.
LabelOf(j) == Join(Split(Upper(df[j].zijde)))

\* The label holds a Y followed, after at most one blank, by a digit.
HasYNumber(u) ==
    \E i \in 1..Len(u) :
        /\ u[i] = "Y"
        /\ \/ i + 1 <= Len(u) /\ IsDigit(u[i + 1])
           \/ i + 2 <= Len(u) /\ u[i + 1] = " " /\ IsDigit(u[i + 2])

TSlotMarkerA(u) == Contains(u, S_TSLOT_A) \/ Contains(u, S_TSLOT_A_JOINED)

TSlotMarkerB(u) == Contains(u, S_TSLOT_B) \/ Contains(u, <<"T","S","L","O","T"," ","B">>)

\* The profile of profs that row j went to has a section of the side sd.
RowHasSide(j, sd) ==
    \E q \in 1..Len(profs) :
        /\ profs[q].name = RowName(df[j])
        /\ IndexOfSide(profs[q].sections, sd) # 0

\* C21 as stated: a row whose label holds ZIJKANT (and is no top-face label),
\* with no Y<number> token and no T-slot A/B marker, goes to the side
\* 'ZIJKANT Y10'; and a profile has the side 'ZIJKANT T-slot A' or
\* 'ZIJKANT T-slot B' only when one of its rows carries that T-slot marker.
C21_AsStated ==
    /\ \A j \in RowsDone :
          ( /\ Contains(LabelOf(j), S_ZIJKANT)
            /\ ~StartsWith(LabelOf(j), S_BOVENKANT)
            /\ ~HasYNumber(LabelOf(j))
            /\ ~TSlotMarkerA(LabelOf(j))
            /\ ~TSlotMarkerB(LabelOf(j)) )
          => RowHasSide(j, L_Y10)
    /\ \A q \in 1..Len(profs) :
          /\ IndexOfSide(profs[q].sections, L_SlotA) # 0
                => \E j \in RowsDone :
                      RowName(df[j]) = profs[q].name /\ TSlotMarkerA(LabelOf(j))
          /\ IndexOfSide(profs[q].sections, L_SlotB) # 0
                => \E j \in RowsDone :
                      RowName(df[j]) = profs[q].name /\ TSlotMarkerB(LabelOf(j))

\* What holds of map_side: the A that line 133 looks for is in ZIJKANT itself,
\* so a ZIJKANT label without a number goes to T-slot B when it holds a B
\* anywhere and to T-slot A otherwise, and the side 'ZIJKANT Y10' comes only
\* from a label that spells the number 10.
C21_FallbackNeverTaken ==
    /\ \A j \in RowsDone :
          ( /\ Contains(LabelOf(j), S_ZIJKANT)
            /\ ~StartsWith(LabelOf(j), S_BOVENKANT)
            /\ ~HasYNumber(LabelOf(j)) )
          => IF Contains(LabelOf(j), << "B" >>)
             THEN RowHasSide(j, L_SlotB)
             ELSE RowHasSide(j, L_SlotA)
    /\ \A q \in 1..Len(profs) :
          IndexOfSide(profs[q].sections, L_Y10) # 0
             => \E j \in RowsDone :
                   /\ RowName(df[j]) = profs[q].name
                   /\ Contains(LabelOf(j), << "Y", "1", "0" >>)
                         \/ Contains(LabelOf(j), << "Y", " ", "1", "0" >>)

\* A bare ZIJKANT row has been classified.
C21_BareSideSeen ==
    \E j \in RowsDone : LabelOf(j) = S_ZIJKANT /\ RowHasSide(j, L_SlotA)

\* ------------------------------------------------------------------ C22

\* The lines written so far in output order: those of `lines`, then those
\* the drill cycle under way holds in its own list.
Emitted == lines \o (IF InCycle \/ (pc = "raised" /\ cycle # << >>) THEN cycle ELSE << >>)

\* A rapid in X or in Y: to a hole, to a side, or to the reference point.
IsLateral(l) ==
    l.op \in { "G0 X", "G0 Y", "G0 X0.", "G0 X0.000", "G0 Y300.", "G0 Y300.000" }

\* A line that commands a Z position.
IsZMove(l) == l.op \in { "G0 Z", "G1 Z", "G28 G91 Z0." }

\* The position of the last Z command before line j of out, or 0.
LastZBefore(out, j) ==
    IF \E i \in 1..(j - 1) : IsZMove(out[i])
    THEN CHOOSE i \in 1..(j - 1) : IsZMove(out[i]) /\ \A m \in (i + 1)..(j - 1) : ~IsZMove(out[m])
    ELSE 0

\* C22: in the text generate_gcode writes, in both dialects, the last Z
\* commanded before any G0 X or G0 Y line is the rapid to safe_z; and every G1
\* feed move comes after the spindle start and after its hole's G0 X move,
\* with only lines of that hole's drill cycle in between.
C22_NoLateralWhileDown ==
    /\ \A j \in 1..Len(Emitted) :
          IsLateral(Emitted[j])
             => /\ LastZBefore(Emitted, j) # 0
                /\ Emitted[LastZBefore(Emitted, j)] = RapidLine(safe_z)
    /\ \A j \in 1..Len(Emitted) :
          IsFeed(Emitted[j])
             => /\ \E i \in 1..(j - 1) : Emitted[i].op = "S M3"
                /\ \E i \in 1..(j - 1) :
                      /\ IsHoleMove(Emitted[i])
                      /\ \A m \in (i + 1)..(j - 1) :
                            IsFeed(Emitted[m]) \/ IsRapidZ(Emitted[m]) \/ IsDwell(Emitted[m])
    /\ (InCycle /\ \E j \in 1..Len(cycle) : IsFeed(cycle[j]))
          => /\ PyFloat(CurHole) # None
             /\ lines[Len(lines)] = HoleMoveLine(PyFloat(CurHole)[1])

\* A call in the tap dialect is over whose text moves to a second hole and to
\* a second side after the feed move of an earlier hole.
C22_Witness ==
    /\ pc = "done"
    /\ tap
    /\ \E i, j, m \in 1..Len(lines) :
          /\ i < j /\ j < m
          /\ IsFeed(lines[i]) /\ IsHoleMove(lines[j]) /\ IsFeed(lines[m])
    /\ \E i, j, m \in 1..Len(lines) :
          /\ i < j /\ j < m
          /\ IsFeed(lines[i]) /\ IsSideMove(lines[j]) /\ IsFeed(lines[m])

====
